---- MODULE Spec2Model ----
(***************************************************************************)
(* docktor: the remote build-and-scan pipeline of `docktor scan`.          *)
(*                                                                         *)
(* One invocation of scanCmd.RunE / Client.BuildAndScanImage is modelled   *)
(* step by step (one action per remote call, local file operation or       *)
(* sleep), together with its environment: the Cloud Build service that     *)
(* runs the job, the Cloud Storage bucket, the wall clock, the caller's    *)
(* context and another docktor invocation working in the same bucket.      *)
(*                                                                         *)
(* Further specifications follow single pieces of the code from the        *)
(* inputs they can get: ParseSpec (getScanResults after decoding),         *)
(* ArchiverSpec (createAndUploadContext), StartBuildSpec (Client.          *)
(* StartBuild), ScannerSpec and FilterSpec (the reports of package         *)
(* scanner) and ScanImageSpec (TrivyScanner.ScanImage).                    *)
(***************************************************************************)
EXTENDS Integers, Sequences, FiniteSets, TLC

\* ------------------------------------------------------------------ bounds

\* Wall-clock seconds (Unix time) at which an invocation may start: 1..MaxClock.
MaxClock == 2

\* Vulnerabilities in one artifact, and the result groups they come in.
MaxVulns == 3
MaxGroups == 2

\* Status checks of one ScanImage call.
MaxPolls == 3

\* Files (other than .gitignore files) in a build context.
MaxFiles == 3

\* time.Sleep calls the model follows in one poll loop.
MaxSleeps == 4

\* --------------------------------------------------------------- constants

\* time.Sleep(5 * time.Second) between two status checks.
SampleInterval == 5

\* The client-side budget the poller is specified to have (a budget of two
\* sample intervals, the 10 seconds of the specification's example).
PollBudget == 2 * SampleInterval

\* ScanImage: timeout := 10 * time.Minute and time.Sleep(1 * time.Second),
\* in seconds.
scanTimeout == 600
ScanSleep == 1

NeverCancelled == "never"

\* time.Time values: seconds since the Unix epoch, and Go's zero time
\* (January 1, year 1), which no clock reading equals.
UnixTime(n) == <<"unix", n>>
ZeroTime == <<"zero", 0>>

\* buildID := fmt.Sprintf("docktor-%d", time.Now().Unix())
BuildIDAt(t) == <<"docktor", t>>
JobIDs == {BuildIDAt(t) : t \in 1..MaxClock}

\* Object keys "{jobID}/context.tar.gz" and "{jobID}/scan-results.json".
ContextKey(id) == <<id, "context.tar.gz">>
ResultsKey(id) == <<id, "scan-results.json">>

\* Local files "docktor/{jobID}-raw.json", "-report.html", "-summary.txt".
RawJSONPath(id) == <<id, "raw.json">>
HTMLPath(id) == <<id, "report.html">>
SummaryPath(id) == <<id, "summary.txt">>

\* ------------------------------------------------- artifact bytes, parsing

VulnHigh == [VulnerabilityID |-> "CVE-1", PkgName |-> "", InstalledVersion |-> "",
             FixedVersion |-> "", Severity |-> "HIGH", Title |-> "",
             Description |-> ""]

DocGarbage == "not json"
DocTruncated == "{\"Results\":[{\"Vulnerabilities\":"
DocEmpty == "{}"
DocOneHigh == "{\"Results\":[{\"Vulnerabilities\":[{\"VulnerabilityID\":\"CVE-1\",\"Severity\":\"HIGH\"}]}]}"

\* The artifact bytes the scanner step (or anything else writing the object)
\* may leave in the bucket.
ArtifactBytes == {DocGarbage, DocTruncated, DocEmpty, DocOneHigh}

\* json.Unmarshal(content, &results): the decoded Results groups, or an error.
UnmarshalResults(bytes) ==
    CASE bytes = DocEmpty   -> [err |-> FALSE, Results |-> <<>>]
      [] bytes = DocOneHigh -> [err |-> FALSE, Results |-> << <<VulnHigh>> >>]
      [] OTHER              -> [err |-> TRUE, Results |-> <<>>]

\* Vulnerability{VulnerabilityID: vuln.VulnerabilityID, ...}: the record
\* appended for one decoded entry, field by field.
Vulnerability(vuln) ==
    [VulnerabilityID |-> vuln.VulnerabilityID,
     PkgName |-> vuln.PkgName,
     InstalledVersion |-> vuln.InstalledVersion,
     FixedVersion |-> vuln.FixedVersion,
     Severity |-> vuln.Severity,
     Title |-> vuln.Title,
     Description |-> vuln.Description]

\* The inner loop: one append per entry of result.Vulnerabilities.
RECURSIVE AppendGroup(_, _)
AppendGroup(vulnerabilities, group) ==
    IF group = <<>> THEN vulnerabilities
    ELSE AppendGroup(Append(vulnerabilities, Vulnerability(Head(group))),
                     Tail(group))

\* FlattenResults with the groups taken last to first.
RECURSIVE FlattenResultsBackwards(_)
FlattenResultsBackwards(groups) ==
    IF groups = <<>> THEN <<>>
    ELSE AppendGroup(FlattenResultsBackwards(Tail(groups)), Head(groups))

\* The nested loops over results.Results and result.Vulnerabilities.
RECURSIVE FlattenResults(_)
FlattenResults(groups) ==
    IF groups = <<>> THEN <<>>
    ELSE AppendGroup(<<>>, Head(groups)) \o FlattenResults(Tail(groups))

\* A decoded entry of Vulnerabilities: the fields the artifact leaves out are
\* empty strings.
DecodedVuln(id, severity, fixedVersion) ==
    [VulnerabilityID |-> id, PkgName |-> "", InstalledVersion |-> "",
     FixedVersion |-> fixedVersion, Severity |-> severity, Title |-> "",
     Description |-> ""]

\* The entries the artifacts of the parse stage are made of.
ArtifactVulns ==
    {DecodedVuln("CVE-1", "CRITICAL", "1.1"), DecodedVuln("CVE-2", "HIGH", ""),
     DecodedVuln("CVE-3", "HIGH", "2.0"), DecodedVuln("CVE-4", "MEDIUM", ""),
     DecodedVuln("CVE-5", "LOW", ""), DecodedVuln("CVE-6", "UNKNOWN", "")}

\* The sequences over S of length at most n.
BoundedSeq(S, n) == UNION {[1..k -> S] : k \in 0..n}

\* flat cut into Len(cuts) consecutive groups, group i ending at cuts[i].
SplitAt(flat, cuts) ==
    [i \in 1..Len(cuts) |->
        SubSeq(flat, (IF i = 1 THEN 0 ELSE cuts[i - 1]) + 1, cuts[i])]

\* What json.Unmarshal can leave in results.Results: at most MaxGroups
\* groups (some possibly empty) holding at most MaxVulns entries in all.
DecodedResults ==
    {<<>>} \cup
    {SplitAt(flat, cuts) :
        <<flat, cuts>> \in
            {fc \in BoundedSeq(ArtifactVulns, MaxVulns)
                      \X BoundedSeq(0..MaxVulns, MaxGroups) :
                /\ Len(fc[2]) >= 1
                /\ fc[2][Len(fc[2])] = Len(fc[1])
                /\ \A i \in 1..(Len(fc[2]) - 1) : fc[2][i] <= fc[2][i + 1]}}

\* The JSON text of one entry, of a list of entries, of a list of groups and
\* of the whole artifact.
EncodeVuln(vuln) ==
    "{\"VulnerabilityID\":\"" \o vuln.VulnerabilityID
    \o "\",\"Severity\":\"" \o vuln.Severity
    \o "\",\"FixedVersion\":\"" \o vuln.FixedVersion \o "\"}"

RECURSIVE EncodeVulns(_)
EncodeVulns(group) ==
    IF group = <<>> THEN ""
    ELSE EncodeVuln(Head(group))
         \o (IF Tail(group) = <<>> THEN "" ELSE ",")
         \o EncodeVulns(Tail(group))

RECURSIVE EncodeGroups(_)
EncodeGroups(groups) ==
    IF groups = <<>> THEN ""
    ELSE "{\"Vulnerabilities\":[" \o EncodeVulns(Head(groups)) \o "]}"
         \o (IF Tail(groups) = <<>> THEN "" ELSE ",")
         \o EncodeGroups(Tail(groups))

EncodeResults(groups) == "{\"Results\":[" \o EncodeGroups(groups) \o "]}"

\* ------------------------------------------------- operation metadata

TimeValid == "1970-01-01T00:00:01Z"
TimeInvalid == "yesterday"
TimeStrings == {"", TimeValid, TimeInvalid}

\* op.Metadata: nil, bytes that are not JSON, or a JSON object whose
\* build.startTime / build.endTime are missing (""), RFC3339 or something else.
MetaNil == [present |-> FALSE, json |-> FALSE, startTime |-> "", endTime |-> ""]
MetaGarbage == [present |-> TRUE, json |-> FALSE, startTime |-> "", endTime |-> ""]
MetadataValues ==
    {MetaNil, MetaGarbage} \cup
    {[present |-> TRUE, json |-> TRUE, startTime |-> s, endTime |-> e] :
        s \in TimeStrings, e \in TimeStrings}

\* json.Unmarshal(op.Metadata, &metadata)
UnmarshalMetadata(m) ==
    IF m.json THEN [err |-> FALSE, StartTime |-> m.startTime, EndTime |-> m.endTime]
    ELSE [err |-> TRUE, StartTime |-> "", EndTime |-> ""]

\* time.Parse(time.RFC3339, s): the time and whether parsing succeeded; a
\* failed parse returns the zero time together with the error.
ParseRFC3339(s) ==
    IF s = TimeValid THEN [t |-> UnixTime(1), ok |-> TRUE]
    ELSE [t |-> ZeroTime, ok |-> FALSE]

\* ------------------------------------------------------------- error values

\* The root causes a call can fail with.
ErrCanceled == "context canceled"
ErrNotExist == "storage: object doesn't exist"
ErrRemote == "remote call failed"
ErrLocalIO == "local i/o error"
ErrSyntax == "invalid character"

\* ------------------------------------------------------------------- state

VARIABLES
    caller,        \* who runs the pipeline: "cli" (scanCmd.RunE) or "lib"
    now,           \* the wall clock, Unix seconds
    pc,            \* the invocation's position in BuildAndScanImage / RunE
    buildID,       \* the job ID of this invocation
    cancelledAt,   \* the position at which ctx was cancelled, or "never"
    bucketExists,  \* the bucket {projectID}-docktor-builds exists
    store,         \* the bucket's objects: key -> bytes
    job,           \* the service's status of this invocation's build
    stopSignals,   \* cancel requests the service received for the build
    op,            \* the last response of Operations.Get
    checks,        \* status checks issued (Operations.Get calls)
    slept,         \* seconds spent in time.Sleep
    content,       \* getScanResults: the bytes read from the artifact
    scanResults,   \* getScanResults: the flattened vulnerabilities
    disk,          \* local files under docktor/: path -> bytes
    wrote,         \* the local paths written by this invocation, in order
    result,        \* what BuildAndScanImage returned: (*BuildResult, error)
    exitCode,      \* how scanCmd.RunE ended: "none", "ok", "error"
    warned,        \* RunE printed the cleanup warning
    results,       \* getScanResults: the decoded artifact (var results)
    peerID,        \* the job ID of the other invocation, once it has one
    builds,        \* the build requests the service accepted from this one
    heap,          \* scanner: the backing arrays of the reports' slices
    report,        \* scanner: the *ScanReport the methods are called on
    filtered,      \* scanner: the report FilterBySeverity returned last
    table,         \* scanner: the text GenerateTable returned last
    html,          \* scanner: the document GenerateHTML returned last
    scan,          \* scanner: one call of TrivyScanner.ScanImage and its remote process
    tree,          \* archiver: the files of the context directory
    gitignore,     \* archiver: what loadGitignore returned
    walk,          \* archiver: the paths filepath.Walk has yet to visit
    entries,       \* archiver: the names of the tar headers written
    visited,       \* archiver: the paths the walk's callback was called with
    counters,      \* archiver: totalFiles, excludedFiles, totalSize, excludedSize
    tmpFile        \* archiver: the temporary file of the archive

\* The state of one scan command.
pipelineVars == <<caller, now, pc, buildID, cancelledAt, bucketExists, store,
                  job, stopSignals, op, checks, slept, content, scanResults,
                  disk, wrote, result, exitCode, warned, results, peerID,
                  builds>>

\* The state of the code the scan command's steps do not run.
scannerVars == <<heap, report, filtered, table, html, scan>>
archiverVars == <<tree, gitignore, walk, entries, visited, counters, tmpFile>>
libraryVars == <<scannerVars, archiverVars>>

vars == <<pipelineVars, libraryVars>>

cancelled == cancelledAt # NeverCancelled

\* op, err := ...Operations.Get(operation.Name).Do(): the error, and the
\* fields of the operation the code reads.
Operation(err, done, metadata) == [Err |-> err, Done |-> done, Metadata |-> metadata]
NoOp == Operation(FALSE, FALSE, MetaNil)
NoResult == [value |-> <<>>, err |-> <<>>]

\* f with x mapped to v (an object written to the bucket, a file to the disk).
Put(f, x, v) == (x :> v) @@ f
\* f without x.
Remove(f, x) == [y \in DOMAIN f \ {x} |-> f[y]]

\* ScanImage is not being called.
NoScan == [at |-> "idle", proc |-> "none", elapsed |-> 0, checks |-> 0,
           kills |-> 0, err |-> ""]

\* No report of the scanner package exists.
ScannerIdle ==
    /\ heap = <<>>
    /\ report = <<>>
    /\ filtered = <<>>
    /\ table = <<>>
    /\ html = <<>>
    /\ scan = NoScan

\* The archiver is not followed: no context tree, nothing loaded or written.
ArchiverIdle ==
    /\ tree = <<>>
    /\ gitignore = <<>>
    /\ walk = <<>>
    /\ entries = <<>>
    /\ visited = <<>>
    /\ counters = [totalFiles |-> 0, excludedFiles |-> 0,
                   totalSize |-> 0, excludedSize |-> 0]
    /\ tmpFile = <<>>

Init ==
    /\ caller \in {"cli", "lib"}
    /\ now = 1
    /\ pc = "start"
    /\ buildID = BuildIDAt(0)
    /\ cancelledAt = NeverCancelled
    /\ bucketExists \in BOOLEAN
    /\ store = <<>>
    /\ job = "NONE"
    /\ stopSignals = 0
    /\ op = NoOp
    /\ checks = 0
    /\ slept = 0
    /\ content = ""
    /\ scanResults = <<>>
    /\ disk = <<>>
    /\ wrote = <<>>
    /\ result = NoResult
    /\ exitCode = "none"
    /\ warned = FALSE
    /\ peerID = BuildIDAt(0)
    /\ builds = <<>>
    /\ results = <<>>
    /\ ScannerIdle
    /\ ArchiverIdle

\* -------------------------------------------------------------- environment

\* The wall clock advances before the command is started.
Tick ==
    /\ pc = "start"
    /\ now < MaxClock
    /\ now' = now + 1
    /\ UNCHANGED <<libraryVars, results, peerID, builds,
                   caller, pc, buildID, cancelledAt, bucketExists, store, job,
                   stopSignals, op, checks, slept, content, scanResults, disk,
                   wrote, result, exitCode, warned>>

\* The caller of BuildAndScanImage cancels ctx. scanCmd.RunE passes
\* context.Background(), which is never cancelled.
Cancel ==
    /\ caller = "lib"
    /\ ~cancelled
    /\ pc \notin {"returned"}
    /\ cancelledAt' = pc
    /\ UNCHANGED <<libraryVars, results, peerID, builds,
                   caller, now, pc, buildID, bucketExists, store, job,
                   stopSignals, op, checks, slept, content, scanResults, disk,
                   wrote, result, exitCode, warned>>

\* The scan command's process is interrupted (SIGINT): no handler is
\* installed, so the process ends where it is.
Interrupt ==
    /\ caller = "cli"
    /\ pc \notin {"start", "exit", "killed"}
    /\ pc' = "killed"
    /\ UNCHANGED <<libraryVars, results, peerID, builds,
                   caller, now, buildID, cancelledAt, bucketExists, store, job,
                   stopSignals, op, checks, slept, content, scanResults, disk,
                   wrote, result, exitCode, warned>>

\* The build of this invocation ends well on the service: the scanner step's
\* output is uploaded to gs://{bucket}/{buildID}/scan-results.json.
JobSucceeds ==
    /\ job = "WORKING"
    /\ job' = "SUCCESS"
    /\ \E bytes \in ArtifactBytes :
          store' = Put(store, ResultsKey(buildID), bytes)
    /\ UNCHANGED <<libraryVars, results, peerID, builds,
                   caller, now, pc, buildID, cancelledAt, bucketExists,
                   stopSignals, op, checks, slept, content, scanResults, disk,
                   wrote, result, exitCode, warned>>

\* The build ends with a failure (a failed step, the 1800s timeout): no
\* artifact is uploaded.
JobFails ==
    /\ job = "WORKING"
    /\ job' = "FAILURE"
    /\ UNCHANGED <<libraryVars, results, peerID, builds,
                   caller, now, pc, buildID, cancelledAt, bucketExists, store,
                   stopSignals, op, checks, slept, content, scanResults, disk,
                   wrote, result, exitCode, warned>>

\* The build of another docktor invocation against the same project, started
\* at second t, uploads its artifact under its own job ID docktor-{t}. One
\* such invocation is followed, while this one can still read the bucket.
PeerJobArtifact ==
    /\ bucketExists
    /\ pc \in {"bucket", "upload", "create", "poll", "sleep", "attrs", "read"}
    /\ \E t \in 1..MaxClock, bytes \in ArtifactBytes :
          /\ t <= now
          /\ peerID \in {BuildIDAt(0), BuildIDAt(t)}
          /\ \A key \in DOMAIN store : key[1] \in {buildID, BuildIDAt(t)}
          /\ store' = Put(store, ResultsKey(BuildIDAt(t)), bytes)
          /\ peerID' = BuildIDAt(t)
    /\ UNCHANGED <<libraryVars, results, builds,
                   caller, now, pc, buildID, cancelledAt, bucketExists, job,
                   stopSignals, op, checks, slept, content, scanResults, disk,
                   wrote, result, exitCode, warned>>

\* ------------------------------------------------- Client.BuildAndScanImage

\* return nil, fmt.Errorf("<msg>: %w", err): the error chain, outermost first.
ReturnError(chain) ==
    /\ pc' = "returned"
    /\ result' = [value |-> <<>>, err |-> chain]

\* The ways a Cloud Storage call given ctx, on something that exists or not,
\* can fail: with the context's error once ctx is cancelled, else with a
\* not-found error when the thing is absent, or with a remote failure.
StorageFailures(exists) ==
    IF cancelled THEN {ErrCanceled}
    ELSE IF exists THEN {ErrRemote}
    ELSE {ErrNotExist, ErrRemote}

\* Whether such a call can succeed.
StorageCanSucceed(exists) == ~cancelled /\ exists

\* The command is started: the job ID is taken from the clock.
Invoke ==
    /\ pc = "start"
    /\ buildID' = BuildIDAt(now)
    /\ pc' = "bucket"
    /\ UNCHANGED <<libraryVars, results, peerID, builds,
                   caller, now, cancelledAt, bucketExists, store, job,
                   stopSignals, op, checks, slept, content, scanResults, disk,
                   wrote, result, exitCode, warned>>

\* bucket.Attrs(ctx), and bucket.Create when the probe returned an error.
EnsureBucket ==
    /\ pc = "bucket"
    /\ \/ /\ StorageCanSucceed(bucketExists)
          /\ pc' = "upload"
          /\ UNCHANGED <<bucketExists, result>>
       \/ \E probe \in StorageFailures(bucketExists) :
             \/ \* Create succeeds: the bucket did not exist
                /\ StorageCanSucceed(~bucketExists)
                /\ bucketExists' = TRUE
                /\ pc' = "upload"
                /\ UNCHANGED result
             \/ \* Create fails (409 for a bucket that exists already)
                /\ \E cause \in StorageFailures(~bucketExists) :
                      ReturnError(<<"failed to create bucket",
                                    IF cause = ErrNotExist
                                    THEN "bucket already exists" ELSE cause>>)
                /\ UNCHANGED bucketExists
    /\ UNCHANGED <<libraryVars, results, peerID, builds,
                   caller, now, buildID, cancelledAt, store, job, stopSignals,
                   op, checks, slept, content, scanResults, disk, wrote,
                   exitCode, warned>>

\* UploadContext with the error of createAndUploadContext ignored: the
\* pipeline goes on to the build request.
UploadContextUnchecked ==
    /\ pc = "upload"
    /\ \/ /\ StorageCanSucceed(bucketExists)
          /\ store' = Put(store, ContextKey(buildID), "context.tar.gz")
       \/ UNCHANGED store
    /\ pc' = "create"
    /\ UNCHANGED <<libraryVars, results, peerID, builds,
                   caller, now, buildID, cancelledAt, bucketExists, job,
                   stopSignals, op, checks, slept, content, scanResults, disk,
                   wrote, result, exitCode, warned>>

\* createAndUploadContext: the archive is written to
\* {buildID}/context.tar.gz, or the stage fails.
UploadContext ==
    /\ pc = "upload"
    /\ \/ /\ StorageCanSucceed(bucketExists)
          /\ store' = Put(store, ContextKey(buildID), "context.tar.gz")
          /\ pc' = "create"
          /\ UNCHANGED result
       \/ /\ \E cause \in StorageFailures(bucketExists) \cup {ErrLocalIO} :
                ReturnError(<<"failed to upload build context", cause>>)
          /\ UNCHANGED store
    /\ UNCHANGED <<libraryVars, results, peerID, builds,
                   caller, now, buildID, cancelledAt, bucketExists, job,
                   stopSignals, op, checks, slept, content, scanResults, disk,
                   wrote, exitCode, warned>>

\* build := &cloudbuild.Build{..., Source: ..., Artifacts: ...}: the parts of
\* the request that name objects of the bucket.
Build(id) == [Source |-> ContextKey(id), Artifacts |-> ResultsKey(id)]

\* The Dockerfile argument (filepath.Rel, which fails for a relative context
\* path and an absolute Dockerfile path), then
\* c.buildService.Projects.Builds.Create(c.projectID, build).Do()
CreateBuild ==
    /\ pc = "create"
    /\ \/ /\ job' = "WORKING"
          /\ builds' = Append(builds, Build(buildID))
          /\ pc' = "poll"
          /\ UNCHANGED result
       \/ /\ \E chain \in {<<"failed to get relative path for Dockerfile", ErrLocalIO>>,
                            <<"failed to create build", ErrRemote>>} :
                ReturnError(chain)
          /\ UNCHANGED <<job, builds>>
    /\ UNCHANGED <<libraryVars, results, peerID, 
                   caller, now, buildID, cancelledAt, bucketExists, store,
                   stopSignals, op, checks, slept, content, scanResults, disk,
                   wrote, exitCode, warned>>

\* OperationsGet with a status check that failed retried after the next wait
\* instead of returned.
OperationsGetRetry ==
    /\ pc = "poll"
    /\ checks' = checks + 1
    /\ \/ /\ op' = Operation(TRUE, FALSE, MetaNil)
          /\ pc' = "sleep"
          /\ UNCHANGED result
       \/ /\ job = "WORKING"
          /\ op' = Operation(FALSE, FALSE, MetaNil)
          /\ pc' = "sleep"
          /\ UNCHANGED result
       \/ /\ job \in {"SUCCESS", "FAILURE"}
          /\ \E m \in MetadataValues : op' = Operation(FALSE, TRUE, m)
          /\ pc' = "attrs"
          /\ UNCHANGED result
    /\ UNCHANGED <<libraryVars, results, peerID, builds,
                   caller, now, buildID, cancelledAt, bucketExists, store, job,
                   stopSignals, slept, content, scanResults, disk, wrote,
                   exitCode, warned>>

\* One pass of the wait loop up to its branch:
\* op, err := c.buildService.Operations.Get(operation.Name).Do()
OperationsGet ==
    /\ pc = "poll"
    /\ checks' = checks + 1
    /\ \/ /\ op' = Operation(TRUE, FALSE, MetaNil)
          /\ ReturnError(<<"failed to get operation status", ErrRemote>>)
       \/ /\ job = "WORKING"
          /\ op' = Operation(FALSE, FALSE, MetaNil)
          /\ pc' = "sleep"
          /\ UNCHANGED result
       \/ /\ job \in {"SUCCESS", "FAILURE"}
          /\ \E m \in MetadataValues : op' = Operation(FALSE, TRUE, m)
          /\ pc' = "attrs"
          /\ UNCHANGED result
    /\ UNCHANGED <<libraryVars, results, peerID, builds,
                   caller, now, buildID, cancelledAt, bucketExists, store, job,
                   stopSignals, slept, content, scanResults, disk, wrote,
                   exitCode, warned>>

\* Sleep with the wait skipped: the loop goes straight to the next check.
SleepSkipped ==
    /\ pc = "sleep"
    /\ checks <= MaxSleeps
    /\ pc' = "poll"
    /\ UNCHANGED <<libraryVars, results, peerID, builds,
                   caller, now, buildID, cancelledAt, bucketExists, store, job,
                   stopSignals, op, checks, slept, content, scanResults, disk,
                   wrote, result, exitCode, warned>>

\* time.Sleep(5 * time.Second)
Sleep ==
    /\ pc = "sleep"
    /\ slept < MaxSleeps * SampleInterval
    /\ slept' = slept + SampleInterval
    /\ now' = now + SampleInterval
    /\ pc' = "poll"
    /\ UNCHANGED <<libraryVars, results, peerID, builds,
                   caller, buildID, cancelledAt, bucketExists, store, job,
                   stopSignals, op, checks, content, scanResults, disk, wrote,
                   result, exitCode, warned>>

\* ----------------------------------------------------- Client.getScanResults

\* getScanResults failed: BuildAndScanImage wraps and returns the error.
RetrievalError(chain) ==
    ReturnError(<<"build completed but failed to get scan results">> \o chain)

\* ObjAttrs without the existence check: an absent object goes on to the read.
ObjAttrsNoProbe ==
    /\ pc = "attrs"
    /\ \/ /\ StorageCanSucceed(TRUE)
          /\ pc' = "read"
          /\ UNCHANGED result
       \/ \E cause \in StorageFailures(TRUE) :
             RetrievalError(<<"scan results file not found", cause>>)
    /\ UNCHANGED <<libraryVars, results, peerID, builds,
                   caller, now, buildID, cancelledAt, bucketExists, store, job,
                   stopSignals, op, checks, slept, content, scanResults, disk,
                   wrote, exitCode, warned>>

\* _, err := obj.Attrs(ctx)
ObjAttrs ==
    /\ pc = "attrs"
    /\ \/ /\ StorageCanSucceed(ResultsKey(buildID) \in DOMAIN store)
          /\ pc' = "read"
          /\ UNCHANGED result
       \/ \E cause \in StorageFailures(ResultsKey(buildID) \in DOMAIN store) :
             RetrievalError(<<"scan results file not found", cause>>)
    /\ UNCHANGED <<libraryVars, results, peerID, builds,
                   caller, now, buildID, cancelledAt, bucketExists, store, job,
                   stopSignals, op, checks, slept, content, scanResults, disk,
                   wrote, exitCode, warned>>

\* obj.NewReader(ctx) and io.ReadAll(reader)
ReadAll ==
    /\ pc = "read"
    /\ \/ /\ StorageCanSucceed(ResultsKey(buildID) \in DOMAIN store)
          /\ content' = store[ResultsKey(buildID)]
          /\ pc' = "save"
          /\ UNCHANGED result
       \/ /\ \E cause \in StorageFailures(ResultsKey(buildID) \in DOMAIN store) :
                RetrievalError(<<"failed to read scan results", cause>>)
          /\ UNCHANGED content
    /\ UNCHANGED <<libraryVars, results, peerID, builds,
                   caller, now, buildID, cancelledAt, bucketExists, store, job,
                   stopSignals, op, checks, slept, scanResults, disk, wrote,
                   exitCode, warned>>

\* WriteRawJSON with the raw file saved only for content that parses.
WriteRawJSONIfValid ==
    /\ pc = "save"
    /\ \/ /\ ~UnmarshalResults(content).err
          /\ disk' = Put(disk, RawJSONPath(buildID), content)
          /\ wrote' = Append(wrote, RawJSONPath(buildID))
          /\ pc' = "parse"
          /\ UNCHANGED result
       \/ /\ UnmarshalResults(content).err
          /\ pc' = "parse"
          /\ UNCHANGED <<disk, wrote, result>>
       \/ /\ \E msg \in {"failed to create docktor directory",
                         "failed to save raw JSON file"} :
                RetrievalError(<<msg, ErrLocalIO>>)
          /\ UNCHANGED <<disk, wrote>>
    /\ UNCHANGED <<libraryVars, results, peerID, builds,
                   caller, now, buildID, cancelledAt, bucketExists, store, job,
                   stopSignals, op, checks, slept, content, scanResults,
                   exitCode, warned>>

\* os.MkdirAll(docktorDir, 0755) and os.WriteFile(rawJSONPath, content, 0644)
WriteRawJSON ==
    /\ pc = "save"
    /\ \/ /\ disk' = Put(disk, RawJSONPath(buildID), content)
          /\ wrote' = Append(wrote, RawJSONPath(buildID))
          /\ pc' = "parse"
          /\ UNCHANGED result
       \/ /\ \E msg \in {"failed to create docktor directory",
                         "failed to save raw JSON file"} :
                RetrievalError(<<msg, ErrLocalIO>>)
          /\ UNCHANGED <<disk, wrote>>
    /\ UNCHANGED <<libraryVars, results, peerID, builds,
                   caller, now, buildID, cancelledAt, bucketExists, store, job,
                   stopSignals, op, checks, slept, content, scanResults,
                   exitCode, warned>>

\* json.Unmarshal(content, &results)
ParseScanResults ==
    /\ pc = "parse"
    /\ LET parsed == UnmarshalResults(content) IN
          \/ /\ parsed.err
             /\ RetrievalError(<<"failed to parse scan results", ErrSyntax>>)
             /\ UNCHANGED results
          \/ /\ ~parsed.err
             /\ results' = parsed.Results
             /\ pc' = "convert"
             /\ UNCHANGED result
    /\ UNCHANGED <<libraryVars, peerID, builds,
                   caller, now, buildID, cancelledAt, bucketExists, store, job,
                   stopSignals, op, checks, slept, content, scanResults, disk,
                   wrote, exitCode, warned>>

\* The conversion of the decoded results to ScanResults.Vulnerabilities.
ConvertResults ==
    /\ pc = "convert"
    /\ scanResults' = FlattenResults(results)
    /\ pc' = "report"
    /\ UNCHANGED <<libraryVars, results, peerID, builds,
                   caller, now, buildID, cancelledAt, bucketExists, store, job,
                   stopSignals, op, checks, slept, content, disk, wrote,
                   result, exitCode, warned>>

\* vulnsBySeverity: the map filled by one append per vulnerability, keyed by
\* the Severity string as decoded.
RECURSIVE GroupBySeverity(_, _)
GroupBySeverity(vulnsBySeverity, vulns) ==
    IF vulns = <<>> THEN vulnsBySeverity
    ELSE LET vuln == Head(vulns)
             sofar == IF vuln.Severity \in DOMAIN vulnsBySeverity
                      THEN vulnsBySeverity[vuln.Severity] ELSE <<>>
         IN  GroupBySeverity(Put(vulnsBySeverity, vuln.Severity, Append(sofar, vuln)),
                             Tail(vulns))

\* severityOrder := []string{"CRITICAL", "HIGH", "MEDIUM", "LOW"}
severityOrder == <<"CRITICAL", "HIGH", "MEDIUM", "LOW">>

\* strings.ToLower on the severities the report loops over.
ToLower(severity) ==
    CASE severity = "CRITICAL" -> "critical"
      [] severity = "HIGH"     -> "high"
      [] severity = "MEDIUM"   -> "medium"
      [] severity = "LOW"      -> "low"
      [] severity = "UNKNOWN"  -> "unknown"
      [] OTHER                 -> severity

\* The severity summary: one card per entry of the order that is a key of
\* the map, showing len(vulns).
RECURSIVE SeverityCards(_, _)
SeverityCards(order, vulnsBySeverity) ==
    IF order = <<>> THEN <<>>
    ELSE LET severity == Head(order) IN
         (IF severity \in DOMAIN vulnsBySeverity
          THEN << [class |-> ToLower(severity), heading |-> severity,
                   count |-> Len(vulnsBySeverity[severity])] >>
          ELSE <<>>)
         \o SeverityCards(Tail(order), vulnsBySeverity)

\* DetailBlock with the fixed-version line written for every vulnerability.
DetailBlockAlwaysFixed(severity, vuln) ==
    [class |-> ToLower(severity),
     heading |-> vuln.Title,
     lines |-> << <<"Package:", vuln.PkgName>>,
                  <<"Installed Version:", vuln.InstalledVersion>>,
                  <<"Fixed Version:", vuln.FixedVersion>>,
                  <<"Description:", vuln.Description>>,
                  <<"Vulnerability ID:", vuln.VulnerabilityID>> >>]

\* One <div class="vulnerability ..."> block: the labelled lines written by
\* the three Fprintf calls.
DetailBlock(severity, vuln) ==
    [class |-> ToLower(severity),
     heading |-> vuln.Title,
     lines |-> << <<"Package:", vuln.PkgName>>,
                  <<"Installed Version:", vuln.InstalledVersion>> >>
               \o (IF vuln.FixedVersion # ""
                   THEN << <<"Fixed Version:", vuln.FixedVersion>> >> ELSE <<>>)
               \o << <<"Description:", vuln.Description>>,
                     <<"Vulnerability ID:", vuln.VulnerabilityID>> >>]

\* The detailed findings: for each entry of the order that is a key of the
\* map, one block per vulnerability of that severity.
RECURSIVE DetailBlocks(_, _)
DetailBlocks(order, vulnsBySeverity) ==
    IF order = <<>> THEN <<>>
    ELSE LET severity == Head(order) IN
         (IF severity \in DOMAIN vulnsBySeverity
          THEN [i \in 1..Len(vulnsBySeverity[severity]) |->
                   DetailBlock(severity, vulnsBySeverity[severity][i])]
          ELSE <<>>)
         \o DetailBlocks(Tail(order), vulnsBySeverity)

\* The HTML document written for a list of vulnerabilities: the header with
\* the build ID, the summary cards and the detail blocks.
HTMLReport(id, vulns) ==
    LET vulnsBySeverity == GroupBySeverity(<<>>, vulns) IN
    [title |-> id,
     cards |-> SeverityCards(severityOrder, vulnsBySeverity),
     blocks |-> DetailBlocks(severityOrder, vulnsBySeverity)]

\* os.Create(htmlPath) and the report written into it; getScanResults
\* returns scanResults.
WriteHTMLReport ==
    /\ pc = "report"
    /\ \/ /\ disk' = Put(disk, HTMLPath(buildID), HTMLReport(buildID, scanResults))
          /\ wrote' = Append(wrote, HTMLPath(buildID))
          /\ pc' = "finish"
          /\ UNCHANGED result
       \/ /\ RetrievalError(<<"failed to create HTML report", ErrLocalIO>>)
          /\ UNCHANGED <<disk, wrote>>
    /\ UNCHANGED <<libraryVars, results, peerID, builds,
                   caller, now, buildID, cancelledAt, bucketExists, store, job,
                   stopSignals, op, checks, slept, content, scanResults,
                   exitCode, warned>>

\* ------------------------------------------- BuildAndScanImage, on op.Done

\* startTime / finishTime: time.Now(), overwritten from the metadata when it
\* is present, decodes and carries a non-empty string.
MetadataTime(m, field, local) ==
    IF m.present /\ ~UnmarshalMetadata(m).err /\ UnmarshalMetadata(m)[field] # ""
    THEN ParseRFC3339(UnmarshalMetadata(m)[field]).t
    ELSE local

\* return &BuildResult{ID: buildID, Status: "SUCCESS", ...}, nil
ReturnBuildResult ==
    /\ pc = "finish"
    /\ result' = [value |-> << [ID |-> buildID,
                                Status |-> "SUCCESS",
                                StartTime |-> MetadataTime(op.Metadata, "StartTime", UnixTime(now)),
                                EndTime |-> MetadataTime(op.Metadata, "EndTime", UnixTime(now)),
                                ScanResults |-> scanResults] >>,
                  err |-> <<>>]
    /\ pc' = "returned"
    /\ UNCHANGED <<libraryVars, results, peerID, builds,
                   caller, now, buildID, cancelledAt, bucketExists, store, job,
                   stopSignals, op, checks, slept, content, scanResults, disk,
                   wrote, exitCode, warned>>

\* ---------------------------------------------------------- scanCmd.RunE

\* BuildAndScanImage returned an error: RunE returns it.
ScanCmdFails ==
    /\ caller = "cli"
    /\ pc = "returned"
    /\ result.err # <<>>
    /\ exitCode' = "error"
    /\ pc' = "exit"
    /\ UNCHANGED <<libraryVars, results, peerID, builds,
                   caller, now, buildID, cancelledAt, bucketExists, store, job,
                   stopSignals, op, checks, slept, content, scanResults, disk,
                   wrote, result, warned>>

\* ScanCmdCleanup with the error of Cleanup returned by RunE.
ScanCmdCleanupEscalates ==
    /\ caller = "cli"
    /\ pc = "returned"
    /\ result.err = <<>>
    /\ LET key == ContextKey(result.value[1].ID) IN
          \/ /\ key \in DOMAIN store
             /\ store' = Remove(store, key)
             /\ exitCode' = "ok"
             /\ UNCHANGED warned
          \/ /\ exitCode' = "error"
             /\ UNCHANGED <<store, warned>>
    /\ pc' = "exit"
    /\ UNCHANGED <<libraryVars, results, peerID, builds,
                   caller, now, buildID, cancelledAt, bucketExists, job,
                   stopSignals, op, checks, slept, content, scanResults, disk,
                   wrote, result>>

\* The result is printed, then client.Cleanup(context.Background(),
\* result.ID) deletes {ID}/context.tar.gz; its error is only printed.
ScanCmdCleanup ==
    /\ caller = "cli"
    /\ pc = "returned"
    /\ result.err = <<>>
    /\ LET key == ContextKey(result.value[1].ID) IN
          \/ /\ key \in DOMAIN store
             /\ store' = Remove(store, key)
             /\ UNCHANGED warned
          \/ /\ warned' = TRUE
             /\ UNCHANGED store
    /\ exitCode' = "ok"
    /\ pc' = "exit"
    /\ UNCHANGED <<libraryVars, results, peerID, builds,
                   caller, now, buildID, cancelledAt, bucketExists, job,
                   stopSignals, op, checks, slept, content, scanResults, disk,
                   wrote, result>>

\* ------------------------------------------------------------ specification

Next ==
    \/ Tick
    \/ Cancel
    \/ Interrupt
    \/ JobSucceeds
    \/ JobFails
    \/ PeerJobArtifact
    \/ Invoke
    \/ EnsureBucket
    \/ UploadContext
    \/ CreateBuild
    \/ OperationsGet
    \/ Sleep
    \/ ObjAttrs
    \/ ReadAll
    \/ WriteRawJSON
    \/ ParseScanResults
    \/ ConvertResults
    \/ WriteHTMLReport
    \/ ReturnBuildResult
    \/ ScanCmdFails
    \/ ScanCmdCleanup

Spec == Init /\ [][Next]_vars

\* ---------------------------------------------------------- the parse stage

\* getScanResults from the point where json.Unmarshal has filled results:
\* the scan command of a build that succeeded on its first status check, the
\* artifact downloaded and saved as raw.json, decoded to any of the bounded
\* results.
ParseInit ==
    /\ results \in DecodedResults
    /\ content = EncodeResults(results)
    /\ caller = "cli"
    /\ now = 1
    /\ pc = "convert"
    /\ buildID = BuildIDAt(1)
    /\ cancelledAt = NeverCancelled
    /\ bucketExists = TRUE
    /\ store = Put(Put(<<>>, ContextKey(buildID), "context.tar.gz"),
                   ResultsKey(buildID), content)
    /\ job = "SUCCESS"
    /\ stopSignals = 0
    /\ op = Operation(FALSE, TRUE, MetaNil)
    /\ checks = 1
    /\ slept = 0
    /\ scanResults = <<>>
    /\ disk = Put(<<>>, RawJSONPath(buildID), content)
    /\ wrote = <<RawJSONPath(buildID)>>
    /\ result = NoResult
    /\ exitCode = "none"
    /\ warned = FALSE
    /\ peerID = BuildIDAt(0)
    /\ builds = <<Build(buildID)>>
    /\ ScannerIdle
    /\ ArchiverIdle

ParseNext ==
    \/ ConvertResults
    \/ WriteHTMLReport
    \/ ReturnBuildResult
    \/ ScanCmdFails
    \/ ScanCmdCleanup

ParseSpec == ParseInit /\ [][ParseNext]_vars

\* ------------------------------------------------------- package scanner

\* SeverityCritical ... SeverityUnknown
Severities == {"CRITICAL", "HIGH", "MEDIUM", "LOW", "UNKNOWN"}

\* A title of two lines: a line break followed by more text.
TitleTwoLines == "x\nHIGH"

\* The pieces of a string between its line breaks and tabs, with the line
\* breaks and tabs themselves.
Tokens(str) ==
    CASE str = TitleTwoLines -> <<"x", "\n", "HIGH">>
      [] str = ""            -> <<>>
      [] OTHER               -> <<str>>

\* A scanner.Vulnerability as decoded from the Trivy report.
ScannerVuln(severity, title) ==
    [ID |-> "CVE-1", Title |-> title, Description |-> "d",
     Severity |-> severity, Package |-> "pkg", Version |-> "1.0",
     FixedIn |-> "", URL |-> ""]

\* The vulnerabilities the reports are made of: one of each severity, and
\* one whose title has two lines.
ScannerVulns ==
    {ScannerVuln(severity, "t") : severity \in Severities}
        \cup {ScannerVuln("LOW", TitleTwoLines)}

\* What the caller of FilterBySeverity may write into the report it got.
Overwritten == ScannerVuln("LOW", "overwritten")

\* A slice header: the backing array and the length.
Slice(array, len) == [array |-> array, len |-> len]

\* The elements of a slice.
Elements(slice) == SubSeq(heap[slice.array], 1, slice.len)

\* The report returned by ScanImage: the decoded vulnerabilities in array 1.
ScannerInit ==
    /\ \E vulns \in BoundedSeq(ScannerVulns, MaxVulns) :
          /\ heap = Put(<<>>, 1, vulns)
          /\ report = [ImageName |-> "app:latest",
                       ScanTime |-> "1970-01-01T00:00:01Z",
                       Vulnerabilities |-> Slice(1, Len(vulns))]
    /\ filtered = <<>>
    /\ table = <<>>
    /\ html = <<>>
    /\ scan = NoScan
    /\ caller = "lib"
    /\ now = 1
    /\ pc = "start"
    /\ buildID = BuildIDAt(0)
    /\ cancelledAt = NeverCancelled
    /\ bucketExists = FALSE
    /\ store = <<>>
    /\ job = "NONE"
    /\ stopSignals = 0
    /\ op = NoOp
    /\ checks = 0
    /\ slept = 0
    /\ content = ""
    /\ scanResults = <<>>
    /\ disk = <<>>
    /\ wrote = <<>>
    /\ result = NoResult
    /\ exitCode = "none"
    /\ warned = FALSE
    /\ peerID = BuildIDAt(0)
    /\ builds = <<>>
    /\ results = <<>>
    /\ ArchiverIdle

\* SeverityLevel with a string that is not a key of the map ranked above
\* every key.
SeverityLevelStrict(severity) ==
    CASE severity = "CRITICAL" -> 4
      [] severity = "HIGH"     -> 3
      [] severity = "MEDIUM"   -> 2
      [] severity = "LOW"      -> 1
      [] severity = "UNKNOWN"  -> 0
      [] OTHER                 -> 5

\* severityOrder[severity] of FilterBySeverity: the level of a severity, 0
\* for a string that is not a key of the map.
SeverityLevel(severity) ==
    CASE severity = "CRITICAL" -> 4
      [] severity = "HIGH"     -> 3
      [] severity = "MEDIUM"   -> 2
      [] severity = "LOW"      -> 1
      [] OTHER                 -> 0

\* FilterLoop keeping only the vulnerabilities above the minimum level.
RECURSIVE FilterLoopAbove(_, _, _)
FilterLoopAbove(kept, vulns, minSeverityLevel) ==
    IF vulns = <<>> THEN kept
    ELSE FilterLoopAbove(
            IF SeverityLevel(Head(vulns).Severity) > minSeverityLevel
            THEN Append(kept, Head(vulns)) ELSE kept,
            Tail(vulns), minSeverityLevel)

\* for _, vuln := range r.Vulnerabilities { if ... >= minSeverityLevel
\* { filtered.Vulnerabilities = append(filtered.Vulnerabilities, vuln) } }
RECURSIVE FilterLoop(_, _, _)
FilterLoop(kept, vulns, minSeverityLevel) ==
    IF vulns = <<>> THEN kept
    ELSE FilterLoop(
            IF SeverityLevel(Head(vulns).Severity) >= minSeverityLevel
            THEN Append(kept, Head(vulns)) ELSE kept,
            Tail(vulns), minSeverityLevel)

\* FilterBySeverity filtering into the receiver's own backing array
\* (r.Vulnerabilities[:0]) instead of a new one.
FilterBySeverityInPlace(minSeverity) ==
    LET kept == FilterLoop(<<>>, Elements(report.Vulnerabilities),
                           SeverityLevel(minSeverity))
        array == report.Vulnerabilities.array
    IN
    /\ heap' = Put(heap, array,
                   kept \o SubSeq(heap[array], Len(kept) + 1, Len(heap[array])))
    /\ filtered' = << [minSeverity |-> minSeverity,
                         report |-> [ImageName |-> report.ImageName,
                                     ScanTime |-> report.ScanTime,
                                     Vulnerabilities |-> Slice(array, Len(kept))]] >>
    /\ UNCHANGED <<pipelineVars, archiverVars, report, table, html, scan>>

\* r.FilterBySeverity(minSeverity): a new report with copies of the
\* receiver's ImageName and ScanTime and a new slice (array 2; the array of
\* an earlier result is garbage once that result is dropped).
FilterBySeverity(minSeverity) ==
    LET kept == FilterLoop(<<>>, Elements(report.Vulnerabilities),
                           SeverityLevel(minSeverity))
    IN
    /\ heap' = Put(heap, 2, kept)
    /\ filtered' = << [minSeverity |-> minSeverity,
                         report |-> [ImageName |-> report.ImageName,
                                     ScanTime |-> report.ScanTime,
                                     Vulnerabilities |-> Slice(2, Len(kept))]] >>
    /\ UNCHANGED <<pipelineVars, archiverVars, report, table, html, scan>>

\* The call of FilterBySeverity with one of the severity constants.
CallFilterBySeverity == \E minSeverity \in Severities : FilterBySeverity(minSeverity)

\* The caller writes into the first vulnerability of the report it got from
\* FilterBySeverity and renames that report's image.
OverwriteFiltered ==
    /\ filtered # <<>>
    /\ filtered[1].report.Vulnerabilities.len > 0
    /\ heap' = [heap EXCEPT ![filtered[1].report.Vulnerabilities.array][1] = Overwritten]
    /\ filtered' = << [filtered[1] EXCEPT !.report.ImageName = "overwritten"] >>
    /\ UNCHANGED <<pipelineVars, archiverVars, report, table, html, scan>>

\* fmt.Fprintf(w, "%s\t%s\t%s\t%s\t%s\n", ...): the five values written
\* as they are, tabs between them and a line break after the last.
RowTokens(cells) ==
    Tokens(cells[1]) \o <<"\t">> \o Tokens(cells[2]) \o <<"\t">>
    \o Tokens(cells[3]) \o <<"\t">> \o Tokens(cells[4]) \o <<"\t">>
    \o Tokens(cells[5]) \o <<"\n">>

\* The rows GenerateTable writes for the vulnerabilities, one Fprintf each.
RECURSIVE VulnRowTokens(_)
VulnRowTokens(vulns) ==
    IF vulns = <<>> THEN <<>>
    ELSE RowTokens(<<Head(vulns).Severity, Head(vulns).Package,
                     Head(vulns).Version, Head(vulns).FixedIn,
                     Head(vulns).Title>>)
         \o VulnRowTokens(Tail(vulns))

\* text/tabwriter: the written text is cut into lines at line breaks and a
\* line into cells at tabs; Flush emits the lines with the cells of a column
\* padded to a common width. The result is kept as lines of cell texts.
RECURSIVE TabWriter(_, _, _, _)
TabWriter(lines, line, cell, stream) ==
    IF stream = <<>>
    THEN IF line = <<>> /\ cell = "" THEN lines
         ELSE Append(lines, Append(line, cell))
    ELSE CASE Head(stream) = "\n" ->
                TabWriter(Append(lines, Append(line, cell)), <<>>, "", Tail(stream))
           [] Head(stream) = "\t" ->
                TabWriter(lines, Append(line, cell), "", Tail(stream))
           [] OTHER ->
                TabWriter(lines, line, cell \o Head(stream), Tail(stream))

TableHeader == <<"SEVERITY", "PACKAGE", "VERSION", "FIXED IN", "TITLE">>
TableSeparator == <<"--------", "-------", "-------", "--------", "-----">>

\* r.GenerateTable(): the header, the separator and the vulnerabilities'
\* rows written through the tabwriter.
GenerateTable ==
    /\ table' = TabWriter(<<>>, <<>>, "",
                    RowTokens(TableHeader) \o RowTokens(TableSeparator)
                    \o VulnRowTokens(Elements(report.Vulnerabilities)))
    /\ UNCHANGED <<pipelineVars, archiverVars, heap, report, filtered, html, scan>>

\* r.GenerateHTML(): the image name, the scan time and one table row per
\* vulnerability, its class the lower-cased severity.
GenerateHTML ==
    /\ html' = [ImageName |-> report.ImageName,
                ScanTime |-> report.ScanTime,
                rows |-> [i \in 1..report.Vulnerabilities.len |->
                    LET vuln == Elements(report.Vulnerabilities)[i] IN
                    [class |-> ToLower(vuln.Severity),
                     cells |-> <<vuln.Severity, vuln.Package, vuln.Version,
                                 vuln.FixedIn, vuln.Title, vuln.Description>>]]]
    /\ UNCHANGED <<pipelineVars, archiverVars, heap, report, filtered, table, scan>>

\* severityCount of PrintSummary: the number of vulnerabilities per severity.
RECURSIVE SeverityCount(_)
SeverityCount(vulns) ==
    IF vulns = <<>> THEN [severity \in Severities |-> 0]
    ELSE LET count == SeverityCount(Tail(vulns)) IN
         IF Head(vulns).Severity \in Severities
         THEN [count EXCEPT ![Head(vulns).Severity] = @ + 1]
         ELSE count

ScannerNext ==
    \/ CallFilterBySeverity
    \/ OverwriteFiltered
    \/ GenerateTable
    \/ GenerateHTML

ScannerSpec == ScannerInit /\ [][ScannerNext]_vars

\* ------------------------------------------------ TrivyScanner.ScanImage

\* No scan command is running: the state of a process that uses the
\* packages as a library.
PipelineIdle ==
    /\ caller = "lib"
    /\ now = 1
    /\ pc = "start"
    /\ buildID = BuildIDAt(0)
    /\ cancelledAt = NeverCancelled
    /\ bucketExists = FALSE
    /\ store = <<>>
    /\ job = "NONE"
    /\ stopSignals = 0
    /\ op = NoOp
    /\ checks = 0
    /\ slept = 0
    /\ content = ""
    /\ scanResults = <<>>
    /\ disk = <<>>
    /\ wrote = <<>>
    /\ result = NoResult
    /\ exitCode = "none"
    /\ warned = FALSE
    /\ peerID = BuildIDAt(0)
    /\ builds = <<>>
    /\ results = <<>>

\* fmt.Errorf("scan timed out after %v", timeout)
ErrScanTimeout == "scan timed out after 10m0s"

\* The seconds a request to the machine's exec endpoint may take: none to
\* speak of, or half the scan budget, or a second less than that.
SlowCall == scanTimeout \div 2
CallDurations == {0, SlowCall - ScanSleep, SlowCall}

\* return nil, fmt.Errorf("<msg>: %w", err)
ScanError(msg) == [scan EXCEPT !.at = "returned", !.err = msg]

\* AfterStatus with the budget checked before the status.
AfterStatusBudgetFirst(status, elapsed) ==
    IF elapsed > scanTimeout THEN "kill"
    ELSE IF status = "completed" THEN "read"
    ELSE "sleep"

\* Where one pass of the loop goes after the status was decoded: out of the
\* loop for "completed"; else to the kill once time.Since(startTime) >
\* timeout; else to the sleep.
AfterStatus(status, elapsed) ==
    IF status = "completed" THEN "read"
    ELSE IF elapsed > scanTimeout THEN "kill"
    ELSE "sleep"

\* A program calls ScanImage for an image.
ScanImageInit ==
    /\ scan = [NoScan EXCEPT !.at = "start"]
    /\ heap = <<>>
    /\ report = <<>>
    /\ filtered = <<>>
    /\ table = <<>>
    /\ html = <<>>
    /\ PipelineIdle
    /\ ArchiverIdle

\* The exec request that starts trivy in the background and the decoding
\* of the process ID; startTime := time.Now().
StartTrivy ==
    /\ scan.at = "start"
    /\ \/ scan' = ScanError("failed to start Trivy scan")
       \/ scan' = [ScanError("failed to get scan process ID") EXCEPT !.proc = "running"]
       \/ scan' = [scan EXCEPT !.at = "check", !.proc = "running"]
    /\ UNCHANGED <<pipelineVars, archiverVars, heap, report, filtered, table, html>>

\* The remote trivy process ends by itself.
TrivyExits ==
    /\ scan.proc = "running"
    /\ scan.at # "returned"
    /\ scan' = [scan EXCEPT !.proc = "exited"]
    /\ UNCHANGED <<pipelineVars, archiverVars, heap, report, filtered, table, html>>

\* One pass of the loop up to its branch: the exec request of the ps check,
\* the decoding of its answer, the comparison with "completed" and the
\* timeout check.
CheckScanStatus ==
    /\ scan.at = "check"
    /\ scan.checks < MaxPolls
    /\ \E took \in CallDurations :
          LET status == IF scan.proc = "running" THEN "running" ELSE "completed"
              elapsed == scan.elapsed + took
          IN
          \/ \E msg \in {"failed to check scan status", "failed to decode status"} :
                scan' = [ScanError(msg) EXCEPT !.checks = @ + 1, !.elapsed = elapsed]
          \/ scan' = [scan EXCEPT !.checks = @ + 1, !.elapsed = elapsed,
                                  !.at = AfterStatus(status, elapsed)]
    /\ UNCHANGED <<pipelineVars, archiverVars, heap, report, filtered, table, html>>

\* s.client.Do(req) with kill -9: the request reaches the machine or not,
\* its outcome is not looked at; then the timeout error is returned.
KillScan ==
    /\ scan.at = "kill"
    /\ \/ scan' = [ScanError(ErrScanTimeout) EXCEPT
                      !.kills = @ + 1,
                      !.proc = IF @ = "running" THEN "killed" ELSE @]
       \/ scan' = ScanError(ErrScanTimeout)
    /\ UNCHANGED <<pipelineVars, archiverVars, heap, report, filtered, table, html>>

\* time.Sleep(1 * time.Second)
ScanSleeps ==
    /\ scan.at = "sleep"
    /\ scan' = [scan EXCEPT !.at = "check", !.elapsed = @ + ScanSleep]
    /\ UNCHANGED <<pipelineVars, archiverVars, heap, report, filtered, table, html>>

\* After the loop: the exec request that reads /tmp/trivy-scan.json, the
\* decoding of the report, the removal of the file (its outcome is not
\* looked at) and the report returned.
ReadScanReport ==
    /\ scan.at = "read"
    /\ \/ /\ \E msg \in {"failed to read scan results", "failed to decode scan results"} :
                scan' = ScanError(msg)
          /\ UNCHANGED <<heap, report>>
       \/ /\ scan' = [scan EXCEPT !.at = "returned"]
          /\ \E vulns \in BoundedSeq(ScannerVulns, MaxVulns) :
                /\ heap' = Put(heap, 1, vulns)
                /\ report' = [ImageName |-> "app:latest",
                              ScanTime |-> "1970-01-01T00:00:01Z",
                              Vulnerabilities |-> Slice(1, Len(vulns))]
    /\ UNCHANGED <<pipelineVars, archiverVars, filtered, table, html>>

ScanImageNext ==
    \/ StartTrivy
    \/ TrivyExits
    \/ CheckScanStatus
    \/ KillScan
    \/ ScanSleeps
    \/ ReadScanReport

ScanImageSpec == ScanImageInit /\ [][ScanImageNext]_vars

\* ------------------------------------------------------ Client.StartBuild

\* The values of Build.Status with which a build of the service has ended,
\* and those of a build that has not.
TerminalStatuses == {"SUCCESS", "FAILURE", "INTERNAL_ERROR", "TIMEOUT",
                     "CANCELLED", "EXPIRED"}
RunningStatuses == {"QUEUED", "WORKING"}

\* A program calls StartBuild.
StartBuildInit ==
    /\ PipelineIdle
    /\ ScannerIdle
    /\ ArchiverIdle

\* c.buildService.Projects.Builds.Create(c.projectID, build).Do()
BuildsCreate ==
    /\ pc = "start"
    /\ \/ /\ job' = "QUEUED"
          /\ pc' = "poll"
          /\ UNCHANGED result
       \/ /\ ReturnError(<<"failed to start build", ErrRemote>>)
          /\ UNCHANGED job
    /\ UNCHANGED <<libraryVars, results, peerID, builds,
                   caller, now, buildID, cancelledAt,
                   bucketExists, store, stopSignals, op, checks, slept, content,
                   scanResults, disk, wrote, exitCode, warned>>

\* The service starts the queued build.
BuildStarts ==
    /\ job = "QUEUED"
    /\ job' = "WORKING"
    /\ UNCHANGED <<libraryVars, results, peerID, builds,
                   caller, now, pc, buildID,
                   cancelledAt, bucketExists, store, stopSignals, op, checks, slept,
                   content, scanResults, disk, wrote, result, exitCode, warned>>

\* The build ends on the service with one of the terminal statuses (a
\* queued build that is never started expires).
BuildEnds ==
    /\ job \in RunningStatuses
    /\ pc # "returned"
    /\ \E status \in TerminalStatuses :
          /\ status = "EXPIRED" <=> job = "QUEUED"
          /\ job' = status
    /\ UNCHANGED <<libraryVars, results, peerID, builds,
                   caller, now, pc, buildID,
                   cancelledAt, bucketExists, store, stopSignals, op, checks, slept,
                   content, scanResults, disk, wrote, result, exitCode, warned>>

\* One pass of StartBuild's loop up to the sleep: Builds.Get and the
\* branches on build.Status.
BuildsGet ==
    /\ pc = "poll"
    /\ checks' = checks + 1
    /\ \/ ReturnError(<<"failed to get build status", ErrRemote>>)
       \/ /\ job = "SUCCESS"
          /\ \E startTime \in TimeStrings, finishTime \in TimeStrings :
                result' = [value |-> << [ID |-> "build-id",
                                        Status |-> job,
                                        StartTime |-> ParseRFC3339(startTime).t,
                                        EndTime |-> ParseRFC3339(finishTime).t,
                                        Logs |-> "log-url"] >>,
                           err |-> <<>>]
          /\ pc' = "returned"
       \/ /\ job \in {"FAILURE", "TIMEOUT", "CANCELLED"}
          /\ ReturnError(<<"build failed with status", job>>)
       \/ /\ job \notin {"SUCCESS", "FAILURE", "TIMEOUT", "CANCELLED"}
          /\ pc' = "sleep"
          /\ UNCHANGED result
    /\ UNCHANGED <<libraryVars, results, peerID, builds,
                   caller, now, buildID, cancelledAt,
                   bucketExists, store, job, stopSignals, op, slept, content,
                   scanResults, disk, wrote, exitCode, warned>>

StartBuildNext ==
    \/ BuildsCreate
    \/ BuildStarts
    \/ BuildEnds
    \/ BuildsGet
    \/ Sleep

StartBuildSpec == StartBuildInit /\ [][StartBuildNext]_vars

\* ------------------------------------- FilterBySeverity, called in a chain

\* Severity is a string type: the values a report or a caller may hold are
\* the five constants and any other string (Trivy's NEGLIGIBLE, say).
SeverityStrings == Severities \cup {"NEGLIGIBLE"}

\* A report of vulnerabilities of any severity string.
FilterInit ==
    /\ \E vulns \in BoundedSeq({ScannerVuln(severity, "t") : severity \in SeverityStrings},
                                MaxVulns) :
          /\ heap = Put(<<>>, 1, vulns)
          /\ report = [ImageName |-> "app:latest",
                       ScanTime |-> "1970-01-01T00:00:01Z",
                       Vulnerabilities |-> Slice(1, Len(vulns))]
    /\ filtered = <<>>
    /\ table = <<>>
    /\ html = <<>>
    /\ scan = NoScan
    /\ PipelineIdle
    /\ ArchiverIdle

\* x := r.FilterBySeverity(a), with any string as the threshold.
FilterOnce ==
    /\ filtered = <<>>
    /\ \E minSeverity \in SeverityStrings : FilterBySeverity(minSeverity)

\* y := x.FilterBySeverity(b): the method called on the report the first
\* call returned; the new slice is array 3.
FilterAgain ==
    /\ Len(filtered) = 1
    /\ \E minSeverity \in SeverityStrings :
          LET r == filtered[1].report
              kept == FilterLoop(<<>>, Elements(r.Vulnerabilities),
                                 SeverityLevel(minSeverity))
          IN
          /\ heap' = Put(heap, 3, kept)
          /\ filtered' = Append(filtered,
                                [minSeverity |-> minSeverity,
                                 report |-> [ImageName |-> r.ImageName,
                                             ScanTime |-> r.ScanTime,
                                             Vulnerabilities |-> Slice(3, Len(kept))]])
    /\ UNCHANGED <<pipelineVars, archiverVars, report, table, html, scan>>

FilterNext ==
    \/ FilterOnce
    \/ FilterAgain

FilterSpec == FilterInit /\ [][FilterNext]_vars

\* ------------------------------------------------ createAndUploadContext

\* Paths are sequences of names. contextPath is absolute; relative paths
\* are the sequences that do not start with the root "/".
contextPath == <<"/", "ctx">>

\* The files a context directory may hold, relative to contextPath.
CandidateFiles ==
    {<<".env">>, <<".git", "config">>, <<"main.go">>,
     <<"build", "output.txt">>, <<"node_modules", "x.js">>,
     <<"web", "build", "output.txt">>, <<"web", "node_modules", "x.js">>,
     <<"lib", "web", "build", "output.txt">>}

\* The lines a .gitignore at the root, and one in web/, may hold.
RootIgnoreLines == {<<>>, <<"# build output", "build/ ", "">>}
WebIgnoreLines == {<<>>, <<"build">>, <<"/build">>, <<"*.txt">>, <<"../main.go">>}

\* Every path of such a directory, in the order filepath.Walk visits them
\* (the names of a directory in byte order, a directory before its content).
WalkOrder ==
    << <<".env">>, <<".git">>, <<".git", "config">>, <<".gitignore">>,
       <<"build">>, <<"build", "output.txt">>,
       <<"lib">>, <<"lib", "web">>, <<"lib", "web", "build">>,
       <<"lib", "web", "build", "output.txt">>,
       <<"main.go">>,
       <<"node_modules">>, <<"node_modules", "x.js">>,
       <<"web">>, <<"web", ".gitignore">>, <<"web", "build">>,
       <<"web", "build", "output.txt">>, <<"web", "node_modules">>,
       <<"web", "node_modules", "x.js">> >>

\* dir is path or an ancestor of path.
IsPrefix(dir, path) ==
    Len(dir) <= Len(path) /\ SubSeq(path, 1, Len(dir)) = dir

\* filepath.Rel(base, path) for a path at or under base.
Rel(base, path) ==
    IF path = base THEN <<".">> ELSE SubSeq(path, Len(base) + 1, Len(path))

\* filepath.Dir(path) and filepath.Base(path).
Dir(path) == SubSeq(path, 1, Len(path) - 1)
Base(path) == path[Len(path)]

\* The relative paths that exist in the tree: its files and the directories
\* above them.
Exists(relPath) == \E file \in DOMAIN tree : IsPrefix(relPath, file)

\* info.IsDir()
IsDir(relPath) == \E file \in DOMAIN tree : file # relPath /\ IsPrefix(relPath, file)

\* The context directories: at most MaxFiles of the candidate files, with or
\* without a .gitignore at the root and in web/. tree maps each file to its
\* lines (the lines matter for the .gitignore files only).
ContextTrees ==
    {[file \in files \cup (IF rootLines = <<>> THEN {} ELSE {<<".gitignore">>})
                   \cup (IF webLines = <<>> THEN {} ELSE {<<"web", ".gitignore">>})
        |-> CASE file = <<".gitignore">> -> rootLines
              [] file = <<"web", ".gitignore">> -> webLines
              [] OTHER -> <<>>] :
        <<files, rootLines, webLines>> \in
            {fs \in SUBSET CandidateFiles : Cardinality(fs) <= MaxFiles}
                \X RootIgnoreLines \X WebIgnoreLines}

\* createAndUploadContext is entered by BuildAndScanImage for any of the
\* context directories.
ArchiverInit ==
    /\ tree \in ContextTrees
    /\ gitignore = <<>>
    /\ walk = <<>>
    /\ entries = <<>>
    /\ visited = <<>>
    /\ counters = [totalFiles |-> 0, excludedFiles |-> 0,
                   totalSize |-> 0, excludedSize |-> 0]
    /\ tmpFile = <<>>
    /\ caller = "cli"
    /\ now = 1
    /\ pc = "upload"
    /\ buildID = BuildIDAt(1)
    /\ cancelledAt = NeverCancelled
    /\ bucketExists = TRUE
    /\ store = <<>>
    /\ job = "NONE"
    /\ stopSignals = 0
    /\ op = NoOp
    /\ checks = 0
    /\ slept = 0
    /\ content = ""
    /\ scanResults = <<>>
    /\ disk = <<>>
    /\ wrote = <<>>
    /\ result = NoResult
    /\ exitCode = "none"
    /\ warned = FALSE
    /\ peerID = BuildIDAt(0)
    /\ builds = <<>>
    /\ results = <<>>
    /\ ScannerIdle

\* strings.TrimSpace(line)
TrimSpace(line) ==
    CASE line = "build/ " -> "build/"
      [] OTHER            -> line

\* strings.HasPrefix(str, "#") and strings.HasPrefix(str, ".")
HasHashPrefix(str) == str \in {"# build output"}
HasDotPrefix(str) == str \in {".", ".env", ".git", ".gitignore"}

\* The text of a pattern as a path: whether it starts with "/", its names
\* between the slashes, and whether it ends with "/".
PatternPath(rooted, names, slash) ==
    [rooted |-> rooted, names |-> names, slash |-> slash]

SplitPattern(line) ==
    CASE line = "build/"     -> PatternPath(FALSE, <<"build">>, TRUE)
      [] line = "build"      -> PatternPath(FALSE, <<"build">>, FALSE)
      [] line = "/build"     -> PatternPath(TRUE, <<"build">>, FALSE)
      [] line = "*.txt"      -> PatternPath(FALSE, <<"*.txt">>, FALSE)
      [] line = "../main.go" -> PatternPath(FALSE, <<"..", "main.go">>, FALSE)

\* filepath.Clean on the names of a relative path: a ".." removes the name
\* before it.
RECURSIVE Clean(_, _)
Clean(done, names) ==
    IF names = <<>> THEN done
    ELSE IF Head(names) = ".." /\ done # <<>> /\ done[Len(done)] # ".."
         THEN Clean(SubSeq(done, 1, Len(done) - 1), Tail(names))
         ELSE Clean(Append(done, Head(names)), Tail(names))

\* filepath.Join(dir, line): the two joined with a slash and cleaned, which
\* also drops a slash at the start of line and one at its end.
Join(dir, line) ==
    PatternPath(FALSE, Clean(<<>>, dir \o SplitPattern(line).names), FALSE)

\* The pattern loadGitignore records for a line of the .gitignore in dir:
\* the line itself at the root, else the line prefixed with the directory.
JoinedPattern(dir, line) ==
    IF dir # <<".">> THEN Join(dir, line) ELSE SplitPattern(line)

\* The patterns of the lines of one .gitignore file: blank lines and
\* comments are skipped.
RECURSIVE FilePatterns(_, _)
FilePatterns(dir, lines) ==
    IF lines = <<>> THEN <<>>
    ELSE LET line == TrimSpace(Head(lines)) IN
         (IF line = "" \/ HasHashPrefix(line) THEN <<>>
          ELSE <<JoinedPattern(dir, line)>>)
         \o FilePatterns(dir, Tail(lines))

\* gitignoreFiles: the .gitignore files in the order the walk of
\* loadGitignore finds them (it visits every path of the tree).
gitignoreFiles ==
    SelectSeq(WalkOrder, LAMBDA path : path \in DOMAIN tree /\ Base(path) = ".gitignore")

\* patterns: the patterns of all .gitignore files, file after file.
RECURSIVE AllPatterns(_)
AllPatterns(files) ==
    IF files = <<>> THEN <<>>
    ELSE FilePatterns(Rel(contextPath, contextPath \o Dir(Head(files))),
                      tree[Head(files)])
         \o AllPatterns(Tail(files))

\* Whether a name matches one name of a pattern ("*" stands for any text
\* without a slash).
NameMatches(pattern, name) ==
    IF pattern = "*.txt" THEN name \in {"output.txt"} ELSE pattern = name

\* The regular expression go-gitignore compiles a pattern to: a pattern
\* that starts with "/" (or has a "*." after a slash) is matched from the
\* start of the path, any other after any number of leading directories; a
\* pattern that ends with "/" matches what lies below the named path, any
\* other the path itself and what lies below it.
CompiledPattern(pattern) ==
    [anchored |-> pattern.rooted
                    \/ \E i \in 2..Len(pattern.names) : pattern.names[i] = "*.txt",
     names |-> pattern.names,
     below |-> pattern.slash]

\* Whether the compiled pattern matches the relative path.
PatternMatches(compiled, path) ==
    \E start \in 1..Len(path) :
        LET end == start + Len(compiled.names) - 1 IN
        /\ compiled.anchored => start = 1
        /\ end <= Len(path)
        /\ \A k \in 1..Len(compiled.names) :
              NameMatches(compiled.names[k], path[start + k - 1])
        /\ compiled.below => end < Len(path)

\* gitignore != nil && gitignore.MatchesPath(path)
MatchesPath(path) ==
    /\ ~gitignore[1].nil
    /\ \E i \in 1..Len(gitignore[1].patterns) :
          PatternMatches(CompiledPattern(gitignore[1].patterns[i]), path)

\* info.Size() of the files a context directory may hold, in bytes.
Size(file) ==
    CASE file = <<".env">>                                -> 1
      [] file = <<".git", "config">>                      -> 2
      [] file = <<"main.go">>                             -> 4
      [] file = <<"build", "output.txt">>                 -> 8
      [] file = <<"node_modules", "x.js">>                -> 16
      [] file = <<"web", "build", "output.txt">>          -> 32
      [] file = <<"web", "node_modules", "x.js">>         -> 64
      [] file = <<"lib", "web", "build", "output.txt">>   -> 128
      [] file = <<".gitignore">>                          -> 256
      [] file = <<"web", ".gitignore">>                   -> 512

\* The pipeline's variables createAndUploadContext does not touch.
uploadFrame == <<results, peerID, builds, caller, now, buildID, cancelledAt,
                 bucketExists, job, stopSignals, op, checks, slept, content,
                 scanResults, disk, wrote, exitCode, warned>>

\* The deferred calls with os.Remove left out.
DeferredWithoutRemove(file) ==
    [file EXCEPT !.tarClosed = TRUE, !.gzipClosed = TRUE, !.closed = TRUE]

\* The deferred calls, run at every return after os.CreateTemp succeeded, in
\* reverse order: tarWriter.Close(), gzipWriter.Close(), tmpFile.Close(),
\* os.Remove(tmpFile.Name()).
Deferred(file) ==
    [file EXCEPT !.tarClosed = TRUE, !.gzipClosed = TRUE, !.closed = TRUE,
                 !.exists = FALSE]

\* return fmt.Errorf("<msg>: %w", err) in createAndUploadContext, wrapped
\* by BuildAndScanImage.
ArchiverError(chain) ==
    /\ ReturnError(<<"failed to upload build context">> \o chain)
    /\ tmpFile' = <<Deferred(tmpFile[1])>>

\* tmpFile, err := os.CreateTemp("", "docktor-context-*.tar.gz"), and the
\* two writers on it.
CreateTemp ==
    /\ pc = "upload"
    /\ tmpFile = <<>>
    /\ \/ /\ tmpFile' = << [exists |-> TRUE, tarClosed |-> FALSE, gzipClosed |-> FALSE,
                             closed |-> FALSE, offset |-> "start"] >>
          /\ pc' = "load"
          /\ UNCHANGED result
       \/ /\ ReturnError(<<"failed to upload build context",
                             "failed to create temporary file", ErrLocalIO>>)
          /\ UNCHANGED tmpFile
    /\ UNCHANGED <<uploadFrame, store, scannerVars, tree, gitignore, walk, entries,
                   visited, counters>>

\* loadGitignore(contextPath), followed by the start of filepath.Walk: nil
\* without any .gitignore file, else the compiled patterns; or its walk or
\* the read of a .gitignore file fails.
LoadGitignore ==
    /\ pc = "load"
    /\ \/ /\ gitignore' = << [nil |-> gitignoreFiles = <<>>,
                                patterns |-> AllPatterns(gitignoreFiles)] >>
          /\ walk' = <<contextPath>>
                      \o [i \in 1..Len(SelectSeq(WalkOrder, Exists)) |->
                             contextPath \o SelectSeq(WalkOrder, Exists)[i]]
          /\ pc' = "walk"
          /\ UNCHANGED <<result, tmpFile>>
       \/ /\ ArchiverError(<<"failed to load .gitignore patterns", ErrLocalIO>>)
          /\ UNCHANGED <<gitignore, walk>>
    /\ UNCHANGED <<uploadFrame, store, scannerVars, tree, entries, visited, counters>>

\* shouldExclude(path) for a relative path: "/node_modules/" inside it or
\* "/node_modules" at its end (a name node_modules that is not the first
\* one), a base name starting with ".", or a match of the ignore patterns.
shouldExclude(path) ==
    \/ \E i \in 2..Len(path) : path[i] = "node_modules"
    \/ HasDotPrefix(Base(path))
    \/ Base(path) = ".git"
    \/ MatchesPath(path)

\* SkipDir with the content of the directory visited all the same.
SkipNothing(path) == Tail(walk)

\* What filepath.Walk has yet to visit once the callback returned
\* filepath.SkipDir for the directory path: nothing at or below it.
SkipDir(path) == SelectSeq(Tail(walk), LAMBDA other : ~IsPrefix(path, other))

\* excludedFiles++ ; excludedSize += info.Size()
CountExcluded(relPath) ==
    [counters EXCEPT !.excludedFiles = @ + 1, !.excludedSize = @ + Size(relPath)]

\* totalFiles++ ; totalSize += info.Size()
CountIncluded(relPath) ==
    [counters EXCEPT !.totalFiles = @ + 1, !.totalSize = @ + Size(relPath)]

\* Visit with the header named by the path as walked, not made relative.
VisitAbsolute(path, isRoot) ==
    LET relPath == Rel(contextPath, path) IN
    /\ visited' = Append(visited, path)
    /\ IF isRoot THEN
           /\ walk' = Tail(walk)
           /\ UNCHANGED <<entries, counters>>
       ELSE IF shouldExclude(relPath) THEN
           IF IsDir(relPath)
           THEN /\ walk' = SkipDir(path)
                /\ UNCHANGED <<entries, counters>>
           ELSE /\ walk' = Tail(walk)
                /\ counters' = CountExcluded(relPath)
                /\ UNCHANGED entries
       ELSE
           /\ entries' = Append(entries, path)
           /\ counters' = IF IsDir(relPath) THEN counters ELSE CountIncluded(relPath)
           /\ walk' = Tail(walk)

\* The callback's outcome for the path filepath.Walk visits next, given
\* whether it is the root: the root is skipped; an excluded directory is
\* skipped with its content (filepath.SkipDir), an excluded file alone and
\* counted; any other path gets a tar header named by its relative path,
\* and a regular file is copied and counted.
Visit(path, isRoot) ==
    LET relPath == Rel(contextPath, path) IN
    /\ visited' = Append(visited, path)
    /\ IF isRoot THEN
           /\ walk' = Tail(walk)
           /\ UNCHANGED <<entries, counters>>
       ELSE IF shouldExclude(relPath) THEN
           IF IsDir(relPath)
           THEN /\ walk' = SkipDir(path)
                /\ UNCHANGED <<entries, counters>>
           ELSE /\ walk' = Tail(walk)
                /\ counters' = CountExcluded(relPath)
                /\ UNCHANGED entries
       ELSE
           /\ entries' = Append(entries, relPath)
           /\ counters' = IF IsDir(relPath) THEN counters ELSE CountIncluded(relPath)
           /\ walk' = Tail(walk)

\* One call of the filepath.Walk callback: the next path is visited, or
\* the callback fails (a header or a file cannot be written) and ends
\* createAndUploadContext with the error.
WalkStep ==
    /\ pc = "walk"
    /\ walk # <<>>
    /\ \/ /\ Visit(Head(walk), Head(walk) = contextPath)
          /\ tmpFile' = <<[tmpFile[1] EXCEPT !.offset = IF entries' # <<>> THEN "end" ELSE @]>>
          /\ UNCHANGED <<pc, result>>
       \/ /\ Head(walk) # contextPath
          /\ ArchiverError(<<"failed to create tar archive", ErrLocalIO>>)
          /\ UNCHANGED <<walk, entries, visited, counters>>
    /\ UNCHANGED <<uploadFrame, store, scannerVars, tree, gitignore>>

\* The walk is over: tarWriter.Close() and gzipWriter.Close(), which write
\* the end of the archive.
CloseWriters ==
    /\ pc = "walk"
    /\ walk = <<>>
    /\ \/ /\ tmpFile' = <<[tmpFile[1] EXCEPT !.tarClosed = TRUE, !.gzipClosed = TRUE,
                                               !.offset = "end"]>>
          /\ pc' = "seek"
          /\ UNCHANGED result
       \/ \E msg \in {"failed to close tar writer", "failed to close gzip writer"} :
             ArchiverError(<<msg, ErrLocalIO>>)
    /\ UNCHANGED <<uploadFrame, store, scannerVars, tree, gitignore, walk, entries,
                   visited, counters>>

\* tmpFile.Seek(0, 0)
Seek ==
    /\ pc = "seek"
    /\ \/ /\ tmpFile' = <<[tmpFile[1] EXCEPT !.offset = "start"]>>
          /\ pc' = "copy"
          /\ UNCHANGED result
       \/ ArchiverError(<<"failed to reset file pointer", ErrLocalIO>>)
    /\ UNCHANGED <<uploadFrame, store, scannerVars, tree, gitignore, walk, entries,
                   visited, counters>>

\* What io.Copy(writer, tmpFile) reads: the file from its offset on, which
\* is the whole archive only from the start of a file both writers have
\* finished.
ReadFrom(file) ==
    IF file.offset = "end" THEN ""
    ELSE IF file.tarClosed /\ file.gzipClosed THEN "context.tar.gz"
    ELSE "context.tar.gz (truncated)"

\* io.Copy(writer, tmpFile) and writer.Close(): the archive is uploaded to
\* {buildID}/context.tar.gz, or the upload fails.
UploadArchive ==
    /\ pc = "copy"
    /\ \/ /\ StorageCanSucceed(bucketExists)
          /\ store' = Put(store, ContextKey(buildID), ReadFrom(tmpFile[1]))
          /\ tmpFile' = <<Deferred([tmpFile[1] EXCEPT !.offset = "end"])>>
          /\ pc' = "create"
          /\ UNCHANGED result
       \/ /\ \E cause \in StorageFailures(bucketExists),
                   msg \in {"failed to upload to Cloud Storage",
                            "failed to close Cloud Storage writer"} :
                ArchiverError(<<msg, cause>>)
          /\ UNCHANGED store
    /\ UNCHANGED <<uploadFrame, scannerVars, tree, gitignore, walk, entries,
                   visited, counters>>

ArchiverNext ==
    \/ CreateTemp
    \/ LoadGitignore
    \/ WalkStep
    \/ CloseWriters
    \/ Seek
    \/ UploadArchive

ArchiverSpec == ArchiverInit /\ [][ArchiverNext]_vars

\* ================================================================== claims

\* The poller is in Submitted or Running: in the wait loop, before any
\* response carrying done=true.
InPollLoop == pc \in {"poll", "sleep"}
Returned == result # NoResult
Succeeded == result.value # <<>>
Failed == result.err # <<>>

\* C1: a job that never completes makes the poller time out: it is no longer
\* in Submitted or Running (about to check the status, or waiting to) once
\* the client-side budget plus one sample interval has been spent waiting.
C1_PollerStopsWithinBudget ==
    InPollLoop => slept <= PollBudget + SampleInterval

\* C2: a BuildResult with Status SUCCESS is returned only for a build the
\* service reported as succeeded; a build that ended with a failure makes
\* BuildAndScanImage return an error.
C2_SuccessOnlyForSucceededJob ==
    (Succeeded /\ result.value[1].Status = "SUCCESS") => job = "SUCCESS"

\* C3: two consecutive status checks are separated by exactly one wait of
\* SampleInterval seconds (about to check: one wait per check made; after a
\* check: one wait less than checks), and once a response carried done=true
\* there is no further check and no further wait; so a job found done on the
\* third check has cost three checks and two waits.
C3_OneWaitBetweenChecks ==
    /\ [](pc = "poll" => slept = checks * SampleInterval)
    /\ []((checks > 0 /\ pc \notin {"poll", "killed"})
             => slept = (checks - 1) * SampleInterval)
    /\ [][op.Done => (checks' = checks /\ slept' = slept)]_vars

\* C3 witness: a run that succeeded on its third status check, after two waits.
C3_Witness ==
    /\ Succeeded
    /\ op.Done
    /\ checks = 3
    /\ slept = 2 * SampleInterval

\* C4: once a cancellation has arrived in Submitted or Running, no further
\* status check is issued and no wait runs its full interval, and the step
\* that leaves the poll loop (or the interrupt that ends the process there)
\* has signalled the remote job to stop.
C4_CancelStopsPolling ==
    [][ /\ (cancelled /\ InPollLoop) => (checks' = checks /\ slept' = slept)
        /\ (cancelled /\ InPollLoop /\ ~InPollLoop') => stopSignals' > 0
        /\ (InPollLoop /\ pc' = "killed") => stopSignals' > 0 ]_vars

\* C5: a run whose context was cancelled before any terminal status response
\* never reports Succeeded, and a run that had observed the terminal status
\* before the cancellation arrived does not end with the cancellation's error.
C5_CancellationOrdering ==
    /\ (Returned /\ cancelledAt \in {"start", "bucket", "upload", "create", "poll", "sleep"})
          => ~Succeeded
    /\ (Returned /\ cancelledAt \in {"attrs", "read", "save", "parse", "convert", "report", "finish"})
          => \A i \in 1..Len(result.err) : result.err[i] # ErrCanceled

\* C6: the first Operations.Get that returns an error ends BuildAndScanImage
\* with that error and a nil result: nothing was retrieved or written locally,
\* and no status check follows.
C6_FailedCheckAborts ==
    /\ [](op.Err =>
            /\ pc \in {"returned", "exit", "killed"}
            /\ result = [value |-> <<>>,
                         err |-> <<"failed to get operation status", ErrRemote>>]
            /\ content = ""
            /\ scanResults = <<>>
            /\ wrote = <<>>
            /\ disk = <<>>)
    /\ [][op.Err => checks' = checks]_vars

\* C6 witness: the second status check failed and the run returned.
C6_Witness ==
    /\ op.Err
    /\ checks = 2
    /\ pc = "returned"
    /\ Failed

\* Whether field f of the metadata holds a timestamp that parses.
HasValidTime(m, f) == m.present /\ m.json /\ ParseRFC3339(m[f]).ok

\* C7: on success StartTime and EndTime are the timestamps parsed from the
\* metadata when it carries valid ones, and otherwise (metadata absent, not
\* JSON, field missing, timestamp not RFC3339) the local clock at completion;
\* neither is ever the zero time.
C7_TimesParsedOrLocal ==
    Succeeded =>
        LET r == result.value[1]
            m == op.Metadata
        IN  /\ r.StartTime = IF HasValidTime(m, "startTime")
                             THEN ParseRFC3339(m.startTime).t ELSE UnixTime(now)
            /\ r.EndTime = IF HasValidTime(m, "endTime")
                           THEN ParseRFC3339(m.endTime).t ELSE UnixTime(now)
            /\ r.StartTime # ZeroTime
            /\ r.EndTime # ZeroTime

\* How often path f was written by this invocation.
TimesWritten(f) == Cardinality({i \in 1..Len(wrote) : wrote[i] = f})

\* C8: a successful run leaves {jobID}-raw.json, {jobID}-report.html and
\* {jobID}-summary.txt on disk, each written exactly once.
C8_ThreeOutputsOnce ==
    Succeeded =>
        \A f \in {RawJSONPath(buildID), HTMLPath(buildID), SummaryPath(buildID)} :
            f \in DOMAIN disk /\ TimesWritten(f) = 1

\* getScanResults failed at json.Unmarshal.
ParseFailed ==
    /\ Failed
    /\ Len(result.err) >= 2
    /\ result.err[2] = "failed to parse scan results"

\* C9: whenever retrieval fails with the parse error, {jobID}-raw.json is on
\* disk holding exactly the bytes that were downloaded, it is the only file
\* this run wrote, and no HTML report exists.
C9_RawSavedBeforeParse ==
    ParseFailed =>
        /\ RawJSONPath(buildID) \in DOMAIN disk
        /\ disk[RawJSONPath(buildID)] = content
        /\ content \in ArtifactBytes
        /\ wrote = <<RawJSONPath(buildID)>>
        /\ HTMLPath(buildID) \notin DOMAIN disk

\* C9 witness: a truncated artifact was downloaded and failed to parse.
C9_Witness ==
    /\ ParseFailed
    /\ content = DocTruncated
    /\ disk[RawJSONPath(buildID)] = DocTruncated

\* C10: when the probe of {jobID}/scan-results.json is made while the object
\* is absent, the run returns the not-found error (never the parse error)
\* with a nil result and creates no local file.
C10_MissingArtifactNotFound ==
    [][ (/\ pc = "attrs"
         /\ ResultsKey(buildID) \notin DOMAIN store
         /\ pc' \notin {"attrs", "killed"})
        => /\ pc' = "returned"
           /\ result'.value = <<>>
           /\ Len(result'.err) >= 2
           /\ result'.err[1] = "build completed but failed to get scan results"
           /\ result'.err[2] = "scan results file not found"
           /\ wrote' = <<>>
           /\ disk' = <<>> ]_vars

\* C10 witness: the job was reported done, the artifact is absent and the run
\* returned the not-found error.
C10_Witness ==
    /\ op.Done
    /\ ResultsKey(buildID) \notin DOMAIN store
    /\ result = [value |-> <<>>,
                 err |-> <<"build completed but failed to get scan results",
                           "scan results file not found", ErrNotExist>>]
    /\ wrote = <<>>
    /\ disk = <<>>

\* The number of entries in the groups before group g.
RECURSIVE EntriesBefore(_, _)
EntriesBefore(groups, g) ==
    IF g <= 1 THEN 0
    ELSE EntriesBefore(groups, g - 1) + Len(groups[g - 1])

\* getScanResults has converted the decoded results.
Converted == pc \in {"report", "finish", "returned", "exit"}

\* C11: the parsed vulnerability sequence is the concatenation of the groups'
\* lists in group order: entry i of group g is found, field for field, at
\* position (entries of the groups before g) + i, and the sequence has no
\* other positions, so nothing is dropped, duplicated or reordered.
C11_FlattenIsConcatenation ==
    Converted =>
        /\ Len(scanResults) = EntriesBefore(results, Len(results) + 1)
        /\ \A g \in 1..Len(results) : \A i \in 1..Len(results[g]) :
              scanResults[EntriesBefore(results, g) + i] = results[g][i]

\* C11 witness: the two-group artifact [{A,B},{C}] was flattened to [A,B,C].
C11_Witness ==
    /\ Converted
    /\ results = << <<DecodedVuln("CVE-1", "CRITICAL", "1.1"),
                       DecodedVuln("CVE-2", "HIGH", "")>>,
                     <<DecodedVuln("CVE-4", "MEDIUM", "")>> >>
    /\ scanResults = <<DecodedVuln("CVE-1", "CRITICAL", "1.1"),
                       DecodedVuln("CVE-2", "HIGH", ""),
                       DecodedVuln("CVE-4", "MEDIUM", "")>>

\* The HTML report of this run is on disk.
ReportWritten == HTMLPath(buildID) \in DOMAIN disk

\* The value of the labelled line of a detail block, or <<>> without one.
BlockLine(block, label) ==
    IF \E k \in 1..Len(block.lines) : block.lines[k][1] = label
    THEN <<block.lines[CHOOSE k \in 1..Len(block.lines) : block.lines[k][1] = label][2]>>
    ELSE <<>>

\* The positions of vulns holding severity.
WithSeverity(vulns, severity) ==
    {i \in 1..Len(vulns) : vulns[i].Severity = severity}

\* C15: in the written report every parsed vulnerability has its detail
\* block, those of severity UNKNOWN included (as many blocks as parsed
\* vulnerabilities, and a block carrying the ID of each UNKNOWN one), while
\* the summary cards are headed CRITICAL, HIGH, MEDIUM or LOW only.
C15_UnknownInDetailsNotInCards ==
    ReportWritten =>
        LET doc == disk[HTMLPath(buildID)] IN
        /\ Len(doc.blocks) = Len(scanResults)
        /\ \A i \in WithSeverity(scanResults, "UNKNOWN") :
              \E b \in 1..Len(doc.blocks) :
                 BlockLine(doc.blocks[b], "Vulnerability ID:")
                    = <<scanResults[i].VulnerabilityID>>
        /\ \A c \in 1..Len(doc.cards) :
              doc.cards[c].heading \in {"CRITICAL", "HIGH", "MEDIUM", "LOW"}

\* The vulnerabilities of the four reported severities, grouped in the
\* order CRITICAL, HIGH, MEDIUM, LOW, in parse order within a severity.
InSeverityOrder(vulns) ==
    SelectSeq(vulns, LAMBDA v : v.Severity = "CRITICAL")
    \o SelectSeq(vulns, LAMBDA v : v.Severity = "HIGH")
    \o SelectSeq(vulns, LAMBDA v : v.Severity = "MEDIUM")
    \o SelectSeq(vulns, LAMBDA v : v.Severity = "LOW")

ReceiverVulns == Elements(report.Vulnerabilities)

\* The report FilterBySeverity returned is as returned: the caller has not
\* written into it.
FilteredAsReturned ==
    /\ filtered # <<>>
    /\ filtered[1].report.ImageName = report.ImageName

\* The severity ranks of the claim.
SeverityRank(severity) ==
    CASE severity = "CRITICAL" -> 4
      [] severity = "HIGH"     -> 3
      [] severity = "MEDIUM"   -> 2
      [] severity = "LOW"      -> 1
      [] severity = "UNKNOWN"  -> 0

\* C12: the report returned by FilterBySeverity holds a subsequence of the
\* receiver's vulnerabilities in their original relative order (a strictly
\* increasing choice of positions), every kept entry has a rank >= the
\* threshold's rank, and as many entries are kept as the receiver has of
\* such rank, so none of sufficient rank is dropped.
C12_FilterKeepsExactlySevere ==
    FilteredAsReturned =>
        LET out == Elements(filtered[1].report.Vulnerabilities)
            in == ReceiverVulns
            min == SeverityRank(filtered[1].minSeverity)
        IN
        /\ \E at \in [1..Len(out) -> 1..Len(in)] :
              /\ \A i \in 1..Len(out) : out[i] = in[at[i]]
              /\ \A i, j \in 1..Len(out) : i < j => at[i] < at[j]
        /\ \A i \in 1..Len(out) : SeverityRank(out[i].Severity) >= min
        /\ Len(out) = Cardinality({i \in 1..Len(in) : SeverityRank(in[i].Severity) >= min})

\* C12 witness: LOW, CRITICAL, HIGH filtered at threshold HIGH gives
\* CRITICAL, HIGH.
C12_Witness ==
    /\ FilteredAsReturned
    /\ filtered[1].minSeverity = "HIGH"
    /\ ReceiverVulns = <<ScannerVuln("LOW", "t"), ScannerVuln("CRITICAL", "t"),
                         ScannerVuln("HIGH", "t")>>
    /\ Elements(filtered[1].report.Vulnerabilities)
          = <<ScannerVuln("CRITICAL", "t"), ScannerVuln("HIGH", "t")>>

\* C13: no call of FilterBySeverity, GenerateTable or GenerateHTML, and no
\* write of the caller into a report FilterBySeverity returned, changes the
\* receiver's ImageName, ScanTime or vulnerabilities; and the returned
\* report never uses the receiver's backing array.
C13_ReceiverNeverChanges ==
    /\ [](filtered # <<>> =>
             filtered[1].report.Vulnerabilities.array # report.Vulnerabilities.array)
    /\ [][ /\ report' = report
           /\ Elements(report.Vulnerabilities)' = Elements(report.Vulnerabilities) ]_vars

\* C13 witness: the table and the HTML were generated, a filtered report
\* that kept the receiver's first vulnerability was returned and written
\* into by the caller, and the receiver still has that vulnerability.
C13_Witness ==
    /\ table # <<>>
    /\ html # <<>>
    /\ filtered # <<>>
    /\ filtered[1].report.ImageName = "overwritten"
    /\ Elements(filtered[1].report.Vulnerabilities)[1] = Overwritten
    /\ filtered[1].minSeverity = "UNKNOWN"
    /\ report.ImageName = "app:latest"
    /\ ReceiverVulns = <<ScannerVuln("CRITICAL", "t"), ScannerVuln("LOW", "t")>>

\* The number of data rows of the table (the lines after the header and the
\* separator) whose severity column reads severity.
DataRows(severity) ==
    Cardinality({i \in 3..Len(table) : table[i][1] = severity})

\* C14: the generated table is the header row, the separator row and then
\* exactly one row per vulnerability, in report order, with the
\* vulnerability's severity in the first column; so for each severity the
\* data rows reading that severity are as many as the summary counts.
C14_TableRowsMatchSummary ==
    table # <<>> =>
        /\ table[1] = TableHeader
        /\ table[2] = TableSeparator
        /\ Len(table) = 2 + Len(ReceiverVulns)
        /\ \A i \in 1..Len(ReceiverVulns) :
              (2 + i <= Len(table)) => table[2 + i][1] = ReceiverVulns[i].Severity
        /\ \A severity \in Severities :
              DataRows(severity) = SeverityCount(ReceiverVulns)[severity]

\* The .gitignore at the root holds the rule "build/".
RootIgnoresBuild ==
    /\ <<".gitignore">> \in DOMAIN tree
    /\ \E i \in 1..Len(tree[<<".gitignore">>]) :
          TrimSpace(tree[<<".gitignore">>][i]) = "build/"

\* C17: no name of an archive entry begins with ".", no entry is or lies
\* under a directory named node_modules (at any depth, the context root's own
\* node_modules included), and no entry is matched by a loaded ignore rule:
\* with the rule build/ at the root, build/output.txt is not an entry.
C17_ArchiveLeavesOutExcluded ==
    \A i \in 1..Len(entries) :
        /\ \A k \in 1..Len(entries[i]) :
              /\ ~HasDotPrefix(entries[i][k])
              /\ entries[i][k] # "node_modules"
        /\ ~MatchesPath(entries[i])
        /\ RootIgnoresBuild => entries[i] # <<"build", "output.txt">>

\* The paths of the tree, relative to the context root.
TreePaths == {WalkOrder[i] : i \in {j \in 1..Len(WalkOrder) : Exists(WalkOrder[j])}}

\* C18: for every .gitignore in a directory D other than the root and every
\* pattern line of it, the rule loadGitignore compiles for the line matches
\* only paths that lie under D.
C18_PatternsScopedToDirectory ==
    gitignore # <<>> =>
        \A file \in DOMAIN tree :
            (Base(file) = ".gitignore" /\ Dir(file) # <<>>) =>
                \A i \in 1..Len(tree[file]) :
                    LET line == TrimSpace(tree[file][i]) IN
                    (line # "" /\ ~HasHashPrefix(line)) =>
                        \A path \in TreePaths :
                            PatternMatches(CompiledPattern(JoinedPattern(Dir(file), line)), path)
                                => (IsPrefix(Dir(file), path) /\ path # Dir(file))

\* C19: every entry name is a path relative to the context root that names
\* something in the tree below it (so never the root itself, as "." or
\* otherwise), and no two entries have the same name.
C19_EntriesRelativeAndDistinct ==
    /\ \A i \in 1..Len(entries) :
          /\ entries[i] # <<>>
          /\ entries[i][1] # "/"
          /\ entries[i] # <<".">>
          /\ Exists(entries[i])
    /\ \A i, j \in 1..Len(entries) : i # j => entries[i] # entries[j]

\* C19 witness: the walk of a tree with build/output.txt and main.go is
\* over and the archive, with the three entries, is uploaded.
C19_Witness ==
    /\ pc = "create"
    /\ walk = <<>>
    /\ entries = << <<"build">>, <<"build", "output.txt">>, <<"main.go">> >>

\* C20: the scan command ends with an error only when BuildAndScanImage
\* returned one, and then without any cleanup warning; after a successful
\* BuildAndScanImage it ends with nil, whether Cleanup deleted the archive
\* or failed and was reported as a warning; and the step that ends the
\* command leaves what BuildAndScanImage returned as it is.
C20_CleanupBestEffort ==
    /\ [](exitCode = "error" => (Failed /\ ~warned))
    /\ []((pc = "exit" /\ Succeeded) => exitCode = "ok")
    /\ [](warned => (Succeeded /\ exitCode = "ok"))
    /\ [][pc' = "exit" => result' = result]_vars

\* C20 witness: BuildAndScanImage succeeded, Cleanup failed (the archive is
\* still in the bucket), the warning was printed and the command ended
\* with nil.
C20_Witness ==
    /\ Succeeded
    /\ warned
    /\ exitCode = "ok"
    /\ pc = "exit"
    /\ ContextKey(buildID) \in DOMAIN store

\* ------------------------------------------------- claims: remote clean-up

\* The scan command has ended without a failed delete call.
EndedWithoutDeleteFailure == pc = "exit" /\ ~warned

\* C21: once a scan command has ended and no delete call failed, neither the
\* context archive it uploaded nor the scan-results artifact its build wrote
\* is left in the bucket, whether the run succeeded or failed after the
\* upload.
C21_ArtifactsCleanedUp ==
    EndedWithoutDeleteFailure =>
        /\ ContextKey(buildID) \notin DOMAIN store
        /\ job = "SUCCESS" => ResultsKey(buildID) \notin DOMAIN store

\* -------------------------------------------------------- claims: job IDs

\* Both invocations have taken their job ID.
BothInvoked == pc # "start" /\ peerID # BuildIDAt(0)

\* C22: two invocations against the same project, also two started within
\* the same second, have different job IDs, so the objects of one are
\* never those of the other.
C22_JobIDsDiffer ==
    BothInvoked =>
        /\ peerID # buildID
        /\ ResultsKey(peerID) # ResultsKey(buildID)
        /\ ContextKey(peerID) # ContextKey(buildID)

\* ------------------------------------------------- claims: ensure bucket

\* BuildAndScanImage returned the error of the ensure-bucket step.
FailedAtBucket ==
    /\ result.err # <<>>
    /\ result.err[1] = "failed to create bucket"

\* C23: with a bucket that exists already (the step never removes one, and
\* creates one only when it succeeds) and a context that is not cancelled,
\* BuildAndScanImage does not fail in the ensure-bucket step, whatever the
\* existence probe answered.
C23_ExistingBucketNeverFails ==
    (bucketExists /\ ~cancelled) => ~FailedAtBucket

\* ------------------------------------------------ claims: order of stages

\* BuildAndScanImage returned the error of the stage with this message.
FailedWith(msg) == result.err # <<>> /\ result.err[1] = msg

\* The positions of getScanResults and of the return after it.
Retrieving == pc \in {"attrs", "read", "save", "parse", "convert", "report", "finish"}

\* C24: the service received at most one build request from the invocation,
\* naming the invocation's own archive, which was uploaded before (and is
\* deleted only by the command's clean-up); the artifact is retrieved only
\* after a status response with done=true; and after a failed stage no later
\* stage has run: no request after a failed upload, no status check after a
\* failed request, no retrieval after a failed status check.
C24_StagesInOrder ==
    /\ Len(builds) <= 1
    /\ \A i \in 1..Len(builds) :
          /\ builds[i].Source = ContextKey(buildID)
          /\ pc # "exit" => builds[i].Source \in DOMAIN store
    /\ job # "NONE" <=> builds # <<>>
    /\ checks > 0 => builds # <<>>
    /\ Retrieving => op.Done /\ ~op.Err
    /\ (content # "" \/ wrote # <<>>) => op.Done /\ ~op.Err
    /\ FailedWith("failed to create bucket") =>
          ContextKey(buildID) \notin DOMAIN store /\ builds = <<>>
    /\ FailedWith("failed to upload build context") =>
          builds = <<>> /\ checks = 0 /\ wrote = <<>>
    /\ (FailedWith("failed to get relative path for Dockerfile")
          \/ FailedWith("failed to create build")) =>
          builds = <<>> /\ checks = 0 /\ wrote = <<>>
    /\ FailedWith("failed to get operation status") =>
          op.Err /\ content = "" /\ wrote = <<>>

\* A build was requested for the uploaded archive, it ended, and the
\* artifact was retrieved after the status response with done=true.
C24_Witness ==
    /\ builds = <<Build(buildID)>>
    /\ checks > 1
    /\ op.Done
    /\ pc = "returned"
    /\ result.err = <<>>
    /\ wrote # <<>>

\* ------------------------------------------------ claims: the archive walk

\* The relative path lies below a directory of the tree that shouldExclude
\* excludes.
BelowExcludedDir(relPath) ==
    \E dir \in TreePaths :
        /\ IsDir(dir)
        /\ shouldExclude(dir)
        /\ IsPrefix(dir, relPath)
        /\ dir # relPath

\* filepath.Walk has returned without an error.
WalkOver == pc \in {"seek", "copy", "create"}

\* C25: the callback of the archiver's walk is never called with (so never
\* tests or writes) a path below an excluded directory, and once the walk
\* is over it was called with every other path of the tree: a file that is
\* excluded itself does not end the walk of its directory.
C25_NoDescentIntoExcluded ==
    gitignore # <<>> =>
        /\ \A i \in 1..Len(visited) :
              ~BelowExcludedDir(Rel(contextPath, visited[i]))
        /\ \A i \in 1..Len(entries) : ~BelowExcludedDir(entries[i])
        /\ WalkOver =>
              \A path \in TreePaths :
                  ~BelowExcludedDir(path) =>
                      \E i \in 1..Len(visited) : visited[i] = contextPath \o path

\* C25 witness: in a tree of .env, .git/config and main.go the walk is over:
\* it met .env (excluded alone), .git (excluded, not entered) and main.go.
C25_Witness ==
    /\ DOMAIN tree = {<<".env">>, <<".git", "config">>, <<"main.go">>}
    /\ pc = "seek"
    /\ visited = <<contextPath, contextPath \o <<".env">>, contextPath \o <<".git">>,
                   contextPath \o <<"main.go">> >>
    /\ entries = << <<"main.go">> >>

\* ------------------------------------------- claims: the archive counters

\* The regular files of the tree that have an entry in the archive, and
\* those that have none.
IncludedFiles == {file \in DOMAIN tree : \E i \in 1..Len(entries) : entries[i] = file}
LeftOutFiles == DOMAIN tree \ IncludedFiles

\* The total size of a set of files.
RECURSIVE TotalSize(_)
TotalSize(files) ==
    IF files = {} THEN 0
    ELSE LET file == CHOOSE f \in files : TRUE IN
         Size(file) + TotalSize(files \ {file})

\* C26: when the walk is over, totalFiles and totalSize are the number and
\* total size of the regular files written to the archive, and
\* excludedFiles and excludedSize those of every regular file of the tree
\* that was left out, files below an excluded directory included.
C26_CountersAccountForFiles ==
    WalkOver =>
        /\ counters.totalFiles = Cardinality(IncludedFiles)
        /\ counters.totalSize = TotalSize(IncludedFiles)
        /\ counters.excludedFiles = Cardinality(LeftOutFiles)
        /\ counters.excludedSize = TotalSize(LeftOutFiles)

\* ------------------------------------------- claims: the temporary file

\* createAndUploadContext has returned.
ArchiverReturned == pc \in {"create", "returned"}

\* C27: once os.CreateTemp has made the temporary file, the file is gone
\* whenever createAndUploadContext has returned, with or without an error;
\* and the step that uploads reads a file whose tar and gzip writers are
\* closed and whose offset is 0, so that the object is the whole archive.
C27_TempFileRemovedAndReadClosed ==
    /\ [](ArchiverReturned /\ tmpFile # <<>> => ~tmpFile[1].exists)
    /\ [](ContextKey(buildID) \in DOMAIN store =>
             store[ContextKey(buildID)] = "context.tar.gz")
    /\ [][store' # store =>
             /\ tmpFile[1].exists
             /\ tmpFile[1].tarClosed
             /\ tmpFile[1].gzipClosed
             /\ tmpFile[1].offset = "start"]_vars

\* C27 witness: the archive of main.go was written, closed and rewound, the
\* upload failed, and the temporary file is removed.
C27_Witness ==
    /\ pc = "returned"
    /\ entries = << <<"main.go">> >>
    /\ result.err # <<>>
    /\ result.err[2] = "failed to upload to Cloud Storage"
    /\ tmpFile # <<>>
    /\ ~tmpFile[1].exists

\* -------------------------------------------- claims: filters in a chain

\* The rank of any severity string: that of the five known values, 0 for
\* every other string.
RankOf(severity) == IF severity \in Severities THEN SeverityRank(severity) ELSE 0

\* The entries of a sequence of vulnerabilities whose rank is at least rank.
AtLeast(vulns, rank) == SelectSeq(vulns, LAMBDA vuln : RankOf(vuln.Severity) >= rank)

\* The vulnerabilities of the n-th report of the chain.
Filtered(n) == Elements(filtered[n].report.Vulnerabilities)

\* C30: filtering a report by a and the result by b gives the sequence that
\* filtering the report once by the one of a, b with the higher rank gives,
\* which is the report's entries of at least that rank; so filtering twice
\* by the same threshold changes nothing, a threshold of rank 0 (UNKNOWN or
\* an unrecognised string) keeps every entry, and an entry with an
\* unrecognised severity is kept exactly by thresholds of rank 0.
C30_FiltersComposeByRank ==
    /\ Len(filtered) >= 1 =>
          /\ Filtered(1) = AtLeast(ReceiverVulns, RankOf(filtered[1].minSeverity))
          /\ RankOf(filtered[1].minSeverity) = 0 => Filtered(1) = ReceiverVulns
    /\ Len(filtered) = 2 =>
          LET a == filtered[1].minSeverity
              b == filtered[2].minSeverity
              higher == IF RankOf(a) >= RankOf(b) THEN a ELSE b
          IN
          /\ Filtered(2) = FilterLoop(<<>>, ReceiverVulns, SeverityLevel(higher))
          /\ Filtered(2) = AtLeast(ReceiverVulns, RankOf(higher))
          /\ a = b => Filtered(2) = Filtered(1)
          /\ RankOf(b) = 0 => Filtered(2) = Filtered(1)

\* C30 witness: LOW, NEGLIGIBLE, HIGH filtered by LOW and then by the
\* unrecognised NEGLIGIBLE is LOW, HIGH, as after the first filter.
C30_Witness ==
    /\ Len(filtered) = 2
    /\ filtered[1].minSeverity = "LOW"
    /\ filtered[2].minSeverity = "NEGLIGIBLE"
    /\ ReceiverVulns = <<ScannerVuln("LOW", "t"), ScannerVuln("NEGLIGIBLE", "t"),
                         ScannerVuln("HIGH", "t")>>
    /\ Filtered(2) = <<ScannerVuln("LOW", "t"), ScannerVuln("HIGH", "t")>>

\* ---------------------------------------- claims: the scanner's poll loop

\* A step that issued a status check and decoded its answer.
StatusDecoded ==
    /\ scan.at = "check"
    /\ scan'.checks = scan.checks + 1
    /\ scan'.err = ""

\* C28: a status check that reports the scan running with more than the
\* budget elapsed leads to the kill request, any other running answer to
\* the sleep, and an answer "completed" to the reading of the results also
\* when the budget is exceeded; after the kill request, delivered or not,
\* ScanImage returns the timeout error, and no status check is issued from
\* the kill on. The timeout error is returned only after more than the
\* budget has elapsed.
C28_ScanBoundedByBudget ==
    /\ [](scan.at = "kill" => scan.elapsed > scanTimeout)
    /\ [](scan.err = ErrScanTimeout =>
             scan.at = "returned" /\ scan.elapsed > scanTimeout)
    /\ [][ /\ (StatusDecoded /\ scan.proc # "running") => scan'.at = "read"
           /\ (StatusDecoded /\ scan.proc = "running" /\ scan'.elapsed > scanTimeout)
                 => scan'.at = "kill"
           /\ (StatusDecoded /\ scan.proc = "running" /\ scan'.elapsed <= scanTimeout)
                 => scan'.at = "sleep"
           /\ scan.at \in {"kill", "returned"} => scan'.checks = scan.checks
           /\ (scan.at = "kill" /\ scan'.at # "kill") =>
                 scan'.at = "returned" /\ scan'.err = ErrScanTimeout ]_vars

\* C28 witness: the second status check found the scan running after more
\* than ten minutes, the kill request did not reach the machine, and
\* ScanImage returned the timeout error with the process still running.
C28_Witness ==
    /\ scan.at = "returned"
    /\ scan.err = ErrScanTimeout
    /\ scan.checks = 2
    /\ scan.kills = 0
    /\ scan.proc = "running"

\* ------------------------------------------ claims: StartBuild's poll loop

\* C29: a status check of StartBuild that finds the build in a terminal
\* status ends the call: with a result only for SUCCESS, with an error for
\* FAILURE, TIMEOUT, CANCELLED, INTERNAL_ERROR and EXPIRED; the loop never
\* goes on to sleep and poll such a build again.
C29_TerminalStatusEndsStartBuild ==
    [][(pc = "poll" /\ checks' = checks + 1 /\ job \in TerminalStatuses) =>
          /\ pc' = "returned"
          /\ result'.err = <<>> => job = "SUCCESS"]_vars

====
